---- MODULE Spec2Model ----
(***************************************************************************)
(* Grid network traffic simulator (networkSimulation.ts) as a state        *)
(* machine: the state is the NetworkState held by runNetworkSimulation,    *)
(* one action per simulateNetworkStep tick.                                *)
(*                                                                         *)
(* Real numbers are fixed-point integers in units of 1/Scale vehicle.      *)
(* Scale is 10^(MaxTime+1): arrivals carry one decimal and every           *)
(* propagation pass (a multiplication by 0.3) adds one more, so all        *)
(* arithmetic of a run of MaxTime ticks is exact.                          *)
(***************************************************************************)
EXTENDS Integers, Sequences, FiniteSets, TLC

\* ---------------------------------------------------------------- bounds
MaxTime == 3
MaxSeed == 3

\* ------------------------------------------------------ program constants
GreenCapacity == 8
FlowInfluenceTenths == 3
FlowCap == 5
CycleLength == 30
InitialFlowRange == 20
ArrivalRange == 5

RECURSIVE Pow10(_)
Pow10(n) == IF n = 0 THEN 1 ELSE 10 * Pow10(n - 1)

Scale == Pow10(MaxTime + 1)

Min(a, b) == IF a < b THEN a ELSE b
Max(a, b) == IF a > b THEN a ELSE b

GridSizes == {2, 3, 4}
Strategies == {"fixed-time", "rule-based", "rl-based"}
\* config.trafficIntensity in tenths: 0, 0.5 and 1
Intensities == {0, 5, 10}
Seeds == 0 .. MaxSeed
Directions == {"north", "east", "south", "west"}

\* One outcome of the k-th Math.random() call of a tick, in fifths
\* (0, 0.2, 0.4, 0.6, 0.8); a seed selects one outcome vector for all the
\* calls of the tick.
Random(seed, k) == (seed * (3 * k + 1) + (seed * k) \div 4) % 5

\* The four draws of the n-th intersection (1-based), in call order.
Draws(seed, n) ==
  [north |-> Random(seed, 4 * (n - 1)),
   east  |-> Random(seed, 4 * (n - 1) + 1),
   south |-> Random(seed, 4 * (n - 1) + 2),
   west  |-> Random(seed, 4 * (n - 1) + 3)]

\* Math.random() * 20
InitialFlow(r) == (r * InitialFlowRange * Scale) \div 5

\* Math.random() * config.trafficIntensity * 5
Arrival(r, trafficIntensity) ==
  (r * trafficIntensity * ArrivalRange * Scale) \div 50

VARIABLES
  config,              \* SimulationConfig
  intersections,       \* state.intersections
  connections,         \* state.connections
  time,                \* state.time
  totalVehicles,       \* state.totalVehicles
  networkEfficiency,   \* state.networkEfficiency, as num/den
  averageWaitingTime,  \* state.averageWaitingTime, as num/den
  stepped,             \* newState.intersections before the propagation pass
  through,             \* northThrough .. westThrough of each intersection
  flowAmounts,         \* flowAmount of each connection in the last pass
  heap,                \* the objects of a run, by address (object level)
  history,             \* runNetworkSimulation's history: state addresses
  loopIndex,           \* runNetworkSimulation's loop variable i
  pc,                  \* position of runNetworkSimulation
  args,                \* the arguments of a library call
  fn,                  \* the library function called
  result,              \* what the call returned
  scenario,            \* ScenarioCustomizer's scenario state
  savedScenarios,      \* ScenarioCustomizer's savedScenarios state
  notified,            \* the scenarios passed to onScenarioChange, last only
  now,                 \* Date.now()
  events,              \* handler calls so far
  isRunning,           \* NetworkSimulationViewer's isRunning state
  simulationHistory,   \* NetworkSimulationViewer's simulationHistory state
  currentStep,         \* NetworkSimulationViewer's currentStep state
  simulationState,     \* TrafficSimulator's simulationState
  trend,               \* Home's simulationHistory state
  inputs               \* what the user has done so far, counted

netVars == <<config, intersections, connections, time, totalVehicles,
             networkEfficiency, averageWaitingTime, stepped, through,
             flowAmounts>>

runVars == <<heap, history, loopIndex, pc>>

callVars == <<args, fn, result>>

customizerVars == <<scenario, savedScenarios, notified, now, events>>

pageVars == <<isRunning, simulationHistory, currentStep, simulationState,
              trend, inputs>>

vars == <<netVars, runVars, callVars, customizerVars, pageVars>>

PageIdle ==
  /\ isRunning = FALSE /\ simulationHistory = <<>> /\ currentStep = 0
  /\ simulationState = <<>> /\ trend = <<>> /\ inputs = 0

\* the variables of the parts a specification does not exercise
RunIdle == heap = <<>> /\ history = <<>> /\ loopIndex = 0 /\ pc = "idle"

CallIdle == args = <<>> /\ fn = "none" /\ result = <<>>

CustomizerIdle ==
  /\ scenario = <<>> /\ savedScenarios = <<>> /\ notified = <<>>
  /\ now = 0 /\ events = 0

NetworkIdle ==
  /\ config = <<>> /\ connections = <<>>
  /\ intersections = <<>> /\ time = 0 /\ totalVehicles = 0
  /\ networkEfficiency = [num |-> 0, den |-> 1]
  /\ averageWaitingTime = [num |-> 0, den |-> 1]
  /\ stepped = <<>> /\ through = <<>> /\ flowAmounts = <<>>

StateIdle ==
  /\ intersections = <<>> /\ time = 0 /\ totalVehicles = 0
  /\ networkEfficiency = [num |-> 0, den |-> 1]
  /\ averageWaitingTime = [num |-> 0, den |-> 1]
  /\ stepped = <<>> /\ through = <<>> /\ flowAmounts = <<>>

\* ------------------------------------------------------ initializeNetwork
NewIntersection(x, y, r) ==
  [id |-> <<x, y>>, x |-> x, y |-> y,
   northFlow |-> InitialFlow(r.north), eastFlow |-> InitialFlow(r.east),
   southFlow |-> InitialFlow(r.south), westFlow |-> InitialFlow(r.west),
   northQueue |-> 0, eastQueue |-> 0, southQueue |-> 0, westQueue |-> 0,
   northSignal |-> "red", eastSignal |-> "green",
   southSignal |-> "red", westSignal |-> "green",
   totalWaitingTime |-> 0, totalThroughput |-> 0,
   efficiency |-> [num |-> 0, den |-> 1]]

initializeNetwork(gridSize, seed) ==
  [n \in 1 .. gridSize * gridSize |->
     NewIntersection((n - 1) \div gridSize, (n - 1) % gridSize,
                     Draws(seed, n))]

\* ----------------------------------------------- createNetworkConnections
Connection(x, y, tx, ty, direction) ==
  [from |-> <<x, y>>, to |-> <<tx, ty>>, direction |-> direction,
   flowInfluence |-> FlowInfluenceTenths]

CellConnectionsNoWest(gridSize, x, y) ==
  (IF y > 0 THEN <<Connection(x, y, x, y - 1, "north")>> ELSE <<>>)
  \o (IF x < gridSize - 1 THEN <<Connection(x, y, x + 1, y, "east")>>
      ELSE <<>>)
  \o (IF y < gridSize - 1 THEN <<Connection(x, y, x, y + 1, "south")>>
      ELSE <<>>)

CellConnections(gridSize, x, y) ==
  (IF y > 0 THEN <<Connection(x, y, x, y - 1, "north")>> ELSE <<>>)
  \o (IF x < gridSize - 1 THEN <<Connection(x, y, x + 1, y, "east")>>
      ELSE <<>>)
  \o (IF y < gridSize - 1 THEN <<Connection(x, y, x, y + 1, "south")>>
      ELSE <<>>)
  \o (IF x > 0 THEN <<Connection(x, y, x - 1, y, "west")>> ELSE <<>>)

RECURSIVE ConnectionsFrom(_, _)
ConnectionsFrom(gridSize, k) ==
  IF k >= gridSize * gridSize THEN <<>>
  ELSE CellConnections(gridSize, k \div gridSize, k % gridSize)
       \o ConnectionsFrom(gridSize, k + 1)

createNetworkConnections(gridSize) == ConnectionsFrom(gridSize, 0)

\* --------------------------------------------------- updateSignalStrategy
NSGreenOnly(i) ==
  [i EXCEPT !.northSignal = "green", !.southSignal = "green"]

NSGreen(i) ==
  [i EXCEPT !.northSignal = "green", !.southSignal = "green",
            !.eastSignal = "red", !.westSignal = "red"]

EWGreen(i) ==
  [i EXCEPT !.northSignal = "red", !.southSignal = "red",
            !.eastSignal = "green", !.westSignal = "green"]

FixedTimeCycle(totalWaitingTime) ==
  (totalWaitingTime \div (CycleLength * Scale)) % 2

RLPrefersNSNoGuard(nsQueue, totalQueue) == 2 * nsQueue > totalQueue

\* nsRatio > 0.5 with nsRatio = nsQueue / (totalQueue + 1)
RLPrefersNS(nsQueue, totalQueue) == 2 * nsQueue > totalQueue + Scale

RulePrefersNSOnTie(nsQueue, ewQueue) == nsQueue >= ewQueue

RulePrefersNS(nsQueue, ewQueue) == nsQueue > ewQueue

updateSignalStrategy(intersection, strategy, nsQueue, ewQueue) ==
  CASE strategy = "fixed-time" ->
         IF FixedTimeCycle(intersection.totalWaitingTime) = 0
         THEN NSGreen(intersection) ELSE EWGreen(intersection)
    [] strategy = "rule-based" ->
         IF RulePrefersNS(nsQueue, ewQueue)
         THEN NSGreen(intersection) ELSE EWGreen(intersection)
    [] strategy = "rl-based" ->
         IF RLPrefersNS(nsQueue,
                        intersection.northQueue + intersection.eastQueue
                        + intersection.southQueue + intersection.westQueue)
         THEN NSGreen(intersection) ELSE EWGreen(intersection)
    [] OTHER -> intersection

\* ----------------------------------------------- simulateIntersectionStep
CapacityAnySignal(signal) == GreenCapacity * Scale

Capacity(signal) == IF signal = "green" THEN GreenCapacity * Scale ELSE 0

Through(queue, signal) == Min(queue, Capacity(signal))

DepartedUnclamped(queue, signal) == queue - Capacity(signal)

Departed(queue, signal) == Max(0, queue - Through(queue, signal))

\* "Add new vehicles based on traffic intensity"
AddArrivals(intersection, cfg, r) ==
  [intersection EXCEPT
     !.northFlow = @ + Arrival(r.north, cfg.trafficIntensity),
     !.eastFlow  = @ + Arrival(r.east, cfg.trafficIntensity),
     !.southFlow = @ + Arrival(r.south, cfg.trafficIntensity),
     !.westFlow  = @ + Arrival(r.west, cfg.trafficIntensity)]

\* the locals northThrough .. westThrough
Throughs(updated) ==
  [north |-> Through(updated.northQueue, updated.northSignal),
   east  |-> Through(updated.eastQueue, updated.eastSignal),
   south |-> Through(updated.southQueue, updated.southSignal),
   west  |-> Through(updated.westQueue, updated.westSignal)]

\* "Move vehicles through intersection"
MoveVehicles(updated) ==
  [updated EXCEPT
     !.northQueue = Departed(@, updated.northSignal),
     !.eastQueue  = Departed(@, updated.eastSignal),
     !.southQueue = Departed(@, updated.southSignal),
     !.westQueue  = Departed(@, updated.westSignal),
     !.totalThroughput =
        @ + Through(updated.northQueue, updated.northSignal)
          + Through(updated.eastQueue, updated.eastSignal)
          + Through(updated.southQueue, updated.southSignal)
          + Through(updated.westQueue, updated.westSignal)]

\* "Add arriving vehicles to queues"
AddArrivingVehicles(updated) ==
  [updated EXCEPT
     !.northQueue = @ + updated.northFlow,
     !.eastQueue  = @ + updated.eastFlow,
     !.southQueue = @ + updated.southFlow,
     !.westQueue  = @ + updated.westFlow]

\* "Calculate waiting time"
AddWaitingTime(updated) ==
  [updated EXCEPT
     !.totalWaitingTime = @ + updated.northQueue + updated.eastQueue
                            + updated.southQueue + updated.westQueue]

\* "Update signal based on strategy"
UpdateSignal(updated, strategy) ==
  updateSignalStrategy(updated, strategy,
                       updated.northQueue + updated.southQueue,
                       updated.eastQueue + updated.westQueue)

\* "Calculate efficiency": totalThroughput / (totalQueue + 1)
SetEfficiency(updated) ==
  [updated EXCEPT
     !.efficiency =
        [num |-> updated.totalThroughput,
         den |-> updated.northQueue + updated.eastQueue
                 + updated.southQueue + updated.westQueue + Scale]]

simulateIntersectionStepStrategyFirst(intersection, cfg, r) ==
  [updated |->
     SetEfficiency(
       AddWaitingTime(
         AddArrivingVehicles(
           MoveVehicles(
             UpdateSignal(AddArrivals(intersection, cfg, r),
                          cfg.strategy))))),
   through |-> Throughs(UpdateSignal(AddArrivals(intersection, cfg, r),
                                     cfg.strategy))]

\* The step returns the updated intersection; the model also keeps the
\* locals northThrough .. westThrough as "through".
simulateIntersectionStep(intersection, cfg, r) ==
  [updated |->
     SetEfficiency(
       UpdateSignal(
         AddWaitingTime(
           AddArrivingVehicles(
             MoveVehicles(AddArrivals(intersection, cfg, r)))),
         cfg.strategy)),
   through |-> Throughs(AddArrivals(intersection, cfg, r))]

\* ----------------------------------------------- applyNetworkFlowInfluence
\* intersectionMap.get(id): the position of the intersection, 0 if absent
IndexOf(updated, id) ==
  IF \E n \in DOMAIN updated : updated[n].id = id
  THEN CHOOSE n \in DOMAIN updated : updated[n].id = id
  ELSE 0

FlowOfUncapped(queue, flowInfluence) == (queue * flowInfluence) \div 10

FlowOf(queue, flowInfluence) ==
  Min((queue * flowInfluence) \div 10, FlowCap * Scale)

\* flowAmount of one connection, given the intersections as the earlier
\* connections of the pass left them
FlowAmount(updated, connection) ==
  LET fromIntersection == updated[IndexOf(updated, connection.from)]
  IN  CASE connection.direction = "north" ->
             IF fromIntersection.northSignal = "green"
             THEN FlowOf(fromIntersection.northQueue, connection.flowInfluence)
             ELSE 0
        [] connection.direction = "east" ->
             IF fromIntersection.eastSignal = "green"
             THEN FlowOf(fromIntersection.eastQueue, connection.flowInfluence)
             ELSE 0
        [] connection.direction = "south" ->
             IF fromIntersection.southSignal = "green"
             THEN FlowOf(fromIntersection.southQueue, connection.flowInfluence)
             ELSE 0
        [] connection.direction = "west" ->
             IF fromIntersection.westSignal = "green"
             THEN FlowOf(fromIntersection.westQueue, connection.flowInfluence)
             ELSE 0
        [] OTHER -> 0

\* the body of the switch: the target's opposite queue grows by flowAmount
ApplyConnection(updated, connection) ==
  LET t == IndexOf(updated, connection.to)
      flowAmount == FlowAmount(updated, connection)
  IN  CASE connection.direction = "north" ->
             [updated EXCEPT ![t].southQueue = @ + flowAmount]
        [] connection.direction = "east" ->
             [updated EXCEPT ![t].westQueue = @ + flowAmount]
        [] connection.direction = "south" ->
             [updated EXCEPT ![t].northQueue = @ + flowAmount]
        [] connection.direction = "west" ->
             [updated EXCEPT ![t].eastQueue = @ + flowAmount]
        [] OTHER -> updated

\* connections.forEach, from the k-th connection on; amounts collects the
\* flowAmount of each connection processed so far
RECURSIVE InfluenceFrom(_, _, _, _)
InfluenceFrom(updated, amounts, conns, k) ==
  IF k > Len(conns) THEN [updated |-> updated, amounts |-> amounts]
  ELSE IF /\ IndexOf(updated, conns[k].from) # 0
          /\ IndexOf(updated, conns[k].to) # 0
       THEN InfluenceFrom(ApplyConnection(updated, conns[k]),
                          Append(amounts, FlowAmount(updated, conns[k])),
                          conns, k + 1)
       ELSE InfluenceFrom(updated, Append(amounts, 0), conns, k + 1)

applyNetworkFlowInfluence(ints, conns) ==
  InfluenceFrom(ints, <<>>, conns, 1).updated

FlowAmountsOf(ints, conns) ==
  InfluenceFrom(ints, <<>>, conns, 1).amounts

\* ---------------------------------------------------- simulateNetworkStep
RECURSIVE SumUpTo(_, _)
SumUpTo(f, k) == IF k = 0 THEN 0 ELSE f[k] + SumUpTo(f, k - 1)

Sum(f) == SumUpTo(f, Len(f))

QueueTotal(i) == i.northQueue + i.eastQueue + i.southQueue + i.westQueue

TotalWaitingTime(ints) ==
  Sum([n \in DOMAIN ints |-> ints[n].totalWaitingTime])

TotalThroughput(ints) ==
  Sum([n \in DOMAIN ints |-> ints[n].totalThroughput])

TotalVehiclesNoWest(ints) ==
  Sum([n \in DOMAIN ints |-> ints[n].northQueue + ints[n].eastQueue
                              + ints[n].southQueue])

TotalVehicles(ints) == Sum([n \in DOMAIN ints |-> QueueTotal(ints[n])])

AverageWaitingTime(ints) ==
  IF Len(ints) > 0 THEN [num |-> TotalWaitingTime(ints), den |-> Len(ints)]
  ELSE [num |-> 0, den |-> 1]

NetworkEfficiency(ints) ==
  IF TotalVehicles(ints) > 0
  THEN [num |-> TotalThroughput(ints), den |-> TotalVehicles(ints)]
  ELSE [num |-> 0, den |-> 1]

simulateNetworkStep(seed) ==
  LET firstPass ==
        [n \in DOMAIN intersections |->
           simulateIntersectionStep(intersections[n], config, Draws(seed, n))]
  IN  /\ stepped' = [n \in DOMAIN intersections |-> firstPass[n].updated]
      /\ through' = [n \in DOMAIN intersections |-> firstPass[n].through]
      /\ flowAmounts' = FlowAmountsOf(stepped', connections)
      /\ intersections' = applyNetworkFlowInfluence(stepped', connections)
      /\ time' = time + 1
      /\ totalVehicles' = TotalVehicles(intersections')
      /\ averageWaitingTime' = AverageWaitingTime(intersections')
      /\ networkEfficiency' = NetworkEfficiency(intersections')
      /\ UNCHANGED <<config, connections>>

\* ---------------------------------------------------- runNetworkSimulation
Init ==
  /\ PageIdle
  /\ RunIdle
  /\ CallIdle
  /\ CustomizerIdle
  /\ \E gridSize \in GridSizes, strategy \in Strategies,
     trafficIntensity \in Intensities, seed \in Seeds :
      /\ config = [gridSize |-> gridSize, simulationTime |-> MaxTime,
                   strategy |-> strategy, trafficIntensity |-> trafficIntensity,
                   incidentEnabled |-> FALSE]
      /\ intersections = initializeNetwork(gridSize, seed)
      /\ connections = createNetworkConnections(gridSize)
      /\ time = 0
      /\ totalVehicles = 0
      /\ networkEfficiency = [num |-> 0, den |-> 1]
      /\ averageWaitingTime = [num |-> 0, den |-> 1]
      /\ stepped = initializeNetwork(gridSize, seed)
      /\ through = [n \in 1 .. gridSize * gridSize |->
                      [north |-> 0, east |-> 0, south |-> 0, west |-> 0]]
      /\ flowAmounts = [k \in 1 .. Len(createNetworkConnections(gridSize)) |-> 0]

Tick ==
  /\ time < config.simulationTime
  /\ \E seed \in Seeds : simulateNetworkStep(seed)
  /\ UNCHANGED <<runVars, callVars, customizerVars, pageVars>>

Next == Tick

Spec == Init /\ [][Next]_vars

TypeOK ==
  /\ time \in 0 .. MaxTime
  /\ Len(intersections) = config.gridSize * config.gridSize
  /\ Len(through) = Len(intersections)
  /\ Len(flowAmounts) = Len(connections)

\* ------------------------------------- runNetworkSimulation, object level
\* The objects of a run live in heap, an address being an index of it.
\* Arrays are only ever built anew (map), so they are kept as values.
RunGridSizes == {2}

SimulationTimes == 0 .. MaxTime

\* { ...object } returning the object itself
SpreadAlias(h, addr) == [heap |-> h, addr |-> addr]

\* { ...object }: a new object with the same fields
Spread(h, addr) == [heap |-> Append(h, h[addr]), addr |-> Len(h) + 1]

SpreadOf(c) == Spread(c.heap, c.addr)

\* simulateIntersectionStep's writes to its copy, up to the waiting time
StepWrites(c, cfg, r) ==
  [heap |-> [c.heap EXCEPT ![c.addr] =
               AddWaitingTime(AddArrivingVehicles(
                 MoveVehicles(AddArrivals(@, cfg, r))))],
   addr |-> c.addr]

\* updateSignalStrategy's writes to its copy, then the efficiency
SignalWrites(c, cfg) ==
  [heap |-> [c.heap EXCEPT ![c.addr] =
               SetEfficiency(UpdateSignal(@, cfg.strategy))],
   addr |-> c.addr]

IntersectionStepAt(h, addr, cfg, r) ==
  SignalWrites(SpreadOf(StepWrites(Spread(h, addr), cfg, r)), cfg)

\* state.intersections.map(simulateIntersectionStep)
RECURSIVE StepAllFrom(_, _, _, _, _, _)
StepAllFrom(h, addrs, out, cfg, seed, n) ==
  IF n > Len(addrs)
    THEN [heap |-> h, addrs |-> out]
    ELSE StepAllFrom(IntersectionStepAt(h, addrs[n], cfg, Draws(seed, n)).heap,
                     addrs,
                     Append(out, IntersectionStepAt(h, addrs[n], cfg,
                                                    Draws(seed, n)).addr),
                     cfg, seed, n + 1)

\* intersections.map((i) => ({ ...i }))
RECURSIVE CopyAllFrom(_, _, _, _)
CopyAllFrom(h, addrs, out, n) ==
  IF n > Len(addrs)
    THEN [heap |-> h, addrs |-> out]
    ELSE CopyAllFrom(Spread(h, addrs[n]).heap, addrs,
                     Append(out, Spread(h, addrs[n]).addr), n + 1)

Deref(h, addrs) == [n \in DOMAIN addrs |-> h[addrs[n]]]

\* the connections' writes to the copies, in place
InfluenceWrites(c, conns) ==
  [heap |-> [a \in DOMAIN c.heap |->
               IF \E n \in DOMAIN c.addrs : c.addrs[n] = a
                 THEN applyNetworkFlowInfluence(Deref(c.heap, c.addrs), conns)
                        [CHOOSE n \in DOMAIN c.addrs : c.addrs[n] = a]
                 ELSE c.heap[a]],
   addrs |-> c.addrs]

InfluenceAt(c, conns) ==
  InfluenceWrites(CopyAllFrom(c.heap, c.addrs, <<>>, 1), conns)

\* newState = { ...state, intersections: ..., time: state.time + 1 }
NewStateWrites(c, stateAddr, addrs) ==
  [c.heap EXCEPT ![c.addr] =
     [@ EXCEPT !.intersections = addrs, !.time = c.heap[stateAddr].time + 1]]

\* newState.intersections = ...; the three metrics
MetricWrites(h, newAddr, c) ==
  [c.heap EXCEPT ![newAddr] =
     [@ EXCEPT !.intersections = c.addrs,
               !.totalVehicles = TotalVehicles(Deref(c.heap, c.addrs)),
               !.averageWaitingTime =
                  AverageWaitingTime(Deref(c.heap, c.addrs)),
               !.networkEfficiency =
                  NetworkEfficiency(Deref(c.heap, c.addrs))]]

FirstPassAt(c, stateAddr, cfg, seed) ==
  [heap |-> NewStateWrites(
              [heap |-> StepAllFrom(c.heap, c.heap[stateAddr].intersections,
                                    <<>>, cfg, seed, 1).heap,
               addr |-> c.addr],
              stateAddr,
              StepAllFrom(c.heap, c.heap[stateAddr].intersections,
                          <<>>, cfg, seed, 1).addrs),
   addr |-> c.addr]

SecondPassAt(c, conns) ==
  [heap |-> MetricWrites(c.heap, c.addr,
                         InfluenceAt([heap |-> c.heap,
                                      addrs |-> c.heap[c.addr].intersections],
                                     conns)),
   addr |-> c.addr]

NetworkStepAt(h, stateAddr, cfg, conns, seed) ==
  SecondPassAt(FirstPassAt(Spread(h, stateAddr), stateAddr, cfg, seed), conns)

InitialState(gridSize) ==
  [intersections |-> [n \in 1 .. gridSize * gridSize |-> n],
   time |-> 0, totalVehicles |-> 0,
   networkEfficiency |-> [num |-> 0, den |-> 1],
   averageWaitingTime |-> [num |-> 0, den |-> 1]]

RunInit ==
  /\ PageIdle
  /\ StateIdle
  /\ CallIdle
  /\ CustomizerIdle
  /\ \E gridSize \in RunGridSizes, strategy \in Strategies,
        trafficIntensity \in Intensities, seed \in Seeds,
        simulationTime \in SimulationTimes :
       /\ config = [gridSize |-> gridSize, simulationTime |-> simulationTime,
                    strategy |-> strategy,
                    trafficIntensity |-> trafficIntensity,
                    incidentEnabled |-> FALSE]
       /\ connections = createNetworkConnections(gridSize)
       /\ heap = Append(initializeNetwork(gridSize, seed),
                        InitialState(gridSize))
       /\ history = <<gridSize * gridSize + 1>>
       /\ loopIndex = 0
       /\ pc = "loop"

\* i <= config.simulationTime
LoopContinuesInclusive(i) == i <= config.simulationTime

\* i < config.simulationTime
LoopContinues(i) == i < config.simulationTime

\* one iteration: state = simulateNetworkStep(...); history.push(state)
RunTick ==
  /\ pc = "loop"
  /\ LoopContinues(loopIndex)
  /\ \E seed \in Seeds :
       /\ heap' = NetworkStepAt(heap, history[Len(history)], config,
                                connections, seed).heap
       /\ history' = Append(history,
                            NetworkStepAt(heap, history[Len(history)], config,
                                          connections, seed).addr)
  /\ loopIndex' = loopIndex + 1
  /\ UNCHANGED <<pc, netVars, callVars, customizerVars, pageVars>>

\* return history
RunReturn ==
  /\ pc = "loop"
  /\ ~LoopContinues(loopIndex)
  /\ pc' = "done"
  /\ UNCHANGED <<heap, history, loopIndex, netVars, callVars,
                 customizerVars, pageVars>>

RunNext == RunTick \/ RunReturn

RunSpec == RunInit /\ [][RunNext]_vars

\* a state of the history with its intersections read through
StateAt(h, addr) == [h[addr] EXCEPT !.intersections = Deref(h, @)]

\* ------------------------------------------------------ numbers (Number)
\* A finite number is a + s * sqrt(q) with a, q rational, q >= 0 and
\* s in {-1, 0, 1}; besides these there are NaN, the two infinities and
\* "unk", a value that is not computed here (a transcendental function
\* away from its limit points, or a sum of unlike roots).  An "unk" with
\* s = 1 or s = -1 is a finite number of that sign; with s = 0 nothing is
\* known of it.  Arithmetic is exact: rounding, underflow and the sign of
\* zero are not represented.
RECURSIVE GCD(_, _)
GCD(a, b) == IF b = 0 THEN a ELSE GCD(b, a % b)

Abs(n) == IF n < 0 THEN -n ELSE n

Sgn(n) == IF n < 0 THEN -1 ELSE IF n > 0 THEN 1 ELSE 0

RatBy(n, d, g) == [n |-> (Sgn(d) * n) \div g, d |-> Abs(d) \div g]

\* the rational n/d in lowest terms, d > 0
Rat(n, d) == RatBy(n, d, GCD(Abs(n), Abs(d)))

RZero == [n |-> 0, d |-> 1]

RNeg(x) == [n |-> -x.n, d |-> x.d]

\* x + y over the common denominator, g the divisor the two share
RAddBy(x, y, g) ==
  Rat(x.n * (y.d \div g) + y.n * (x.d \div g), x.d * (y.d \div g))

RAdd(x, y) == RAddBy(x, y, GCD(x.d, y.d))

\* x * y, reduced crosswise by g and h before multiplying
RMulBy(x, y, g, h) ==
  Rat((x.n \div g) * (y.n \div h), (x.d \div h) * (y.d \div g))

RMul(x, y) == RMulBy(x, y, GCD(Abs(x.n), y.d), GCD(Abs(y.n), x.d))

RInv(x) == [n |-> Sgn(x.n) * x.d, d |-> Abs(x.n)]

RCmpBy(x, y, g) == Sgn(x.n * (y.d \div g) - y.n * (x.d \div g))

RCmp(x, y) == RCmpBy(x, y, GCD(x.d, y.d))

\* floor of the square root of n, by bisection of lo .. hi
RECURSIVE RootIn(_, _, _)
RootIn(n, lo, hi) ==
  IF lo >= hi THEN lo
  ELSE IF (lo + hi + 1) \div 2 <= n \div ((lo + hi + 1) \div 2)
         THEN RootIn(n, (lo + hi + 1) \div 2, hi)
         ELSE RootIn(n, lo, (lo + hi + 1) \div 2 - 1)

Root(n) == RootIn(n, 0, n)

NaN == [k |-> "nan", a |-> RZero, s |-> 0, q |-> RZero]

Unk == [k |-> "unk", a |-> RZero, s |-> 0, q |-> RZero]

\* a finite number of the given sign whose value is not computed
UnkOf(sign) == [k |-> "unk", a |-> RZero, s |-> sign, q |-> RZero]

Inf(sign) == [k |-> "inf", a |-> RZero, s |-> sign, q |-> RZero]

InfBy(sign) == IF sign = 0 THEN NaN ELSE Inf(sign)

\* the rational r as a number
Rational(r) == [k |-> "fin", a |-> r, s |-> 0, q |-> RZero]

Num(n) == [k |-> "fin", a |-> [n |-> n, d |-> 1], s |-> 0, q |-> RZero]

Frac(n, d) == Rational(Rat(n, d))

\* a + s * sqrt(q) with rn, rd the integer roots of q's two parts
Fold(a, s, q, rn, rd) ==
  IF rn * rn = q.n /\ rd * rd = q.d
    THEN Rational(RAdd(a, Rat(s * rn, rd)))
    ELSE [k |-> "fin", a |-> a, s |-> s, q |-> q]

\* a + s * sqrt(q), a root of a square folded into the rational part
Fin(a, s, q) ==
  IF s = 0 \/ q.n = 0 THEN Rational(a) ELSE Fold(a, s, q, Root(q.n), Root(q.d))

\* the sign of a finite number
FSign(x) ==
  IF x.s = 0 THEN Sgn(x.a.n)
  ELSE IF x.a.n = 0 \/ Sgn(x.a.n) = x.s THEN x.s
  ELSE Sgn(x.a.n) * RCmp(RMul(x.a, x.a), x.q)

\* the sign of a finite or infinite number
SignOf(x) == IF x.k = "inf" THEN x.s ELSE FSign(x)

IsZero(x) == x.k = "fin" /\ x.s = 0 /\ x.a.n = 0

\* a finite number whose sign (or being zero) is known
Signed(x) == x.k = "fin" \/ (x.k = "unk" /\ x.s # 0)

FNeg(x) ==
  IF x.k = "fin" THEN [x EXCEPT !.a = RNeg(x.a), !.s = -x.s]
  ELSE IF x.k = "inf" THEN Inf(-x.s)
  ELSE IF x.k = "unk" THEN UnkOf(-x.s)
  ELSE x

AbsBy(x, sign) ==
  IF x.k = "inf" THEN Inf(1) ELSE IF sign < 0 THEN FNeg(x) ELSE x

FAbs(x) == IF x.k = "nan" THEN x ELSE AbsBy(x, SignOf(x))

\* the sign of a sum of two numbers of signs sx and sy, 0 when not known
SignOfSum(sx, sy) == IF sx * sy >= 0 THEN Sgn(sx + sy) ELSE 0

\* x + y when one of the two is not computed
UnkSum(x, y) ==
  IF Signed(x) /\ Signed(y) THEN UnkOf(SignOfSum(FSign(x), FSign(y)))
  ELSE IF x.k = "inf" /\ Signed(y) THEN x
  ELSE IF y.k = "inf" /\ Signed(x) THEN y
  ELSE Unk

\* x * y when one of the two is not computed
UnkProduct(x, y, sign) ==
  IF Signed(x) /\ Signed(y)
    THEN (IF sign = 0 THEN Num(0) ELSE UnkOf(sign))
  ELSE IF (x.k = "inf" /\ Signed(y)) \/ (y.k = "inf" /\ Signed(x))
    THEN InfBy(sign)
  ELSE Unk

\* x / y when one of the two is not computed
UnkQuotient(x, y) ==
  IF Signed(x) /\ Signed(y)
    THEN (IF FSign(y) = 0 THEN InfBy(FSign(x))
          ELSE IF FSign(x) = 0 THEN Num(0)
          ELSE UnkOf(FSign(x) * FSign(y)))
    ELSE Unk

\* the root part of a sum of two finite numbers with like roots
SumSign(x, y) ==
  IF x.s = 0 THEN y.s ELSE IF y.s = 0 \/ y.s = x.s THEN x.s ELSE 0

SumRoot(x, y) ==
  IF x.s = 0 THEN y.q ELSE IF y.s = 0 THEN x.q ELSE RMul([n |-> 4, d |-> 1], x.q)

FAdd(x, y) ==
  IF x.k = "nan" \/ y.k = "nan" THEN NaN
  ELSE IF x.k = "unk" \/ y.k = "unk" THEN UnkSum(x, y)
  ELSE IF x.k = "inf" /\ y.k = "inf" THEN (IF x.s = y.s THEN x ELSE NaN)
  ELSE IF x.k = "inf" THEN x
  ELSE IF y.k = "inf" THEN y
  ELSE IF x.s # 0 /\ y.s # 0 /\ x.q # y.q THEN Unk
  ELSE Fin(RAdd(x.a, y.a), SumSign(x, y), SumRoot(x, y))

FSub(x, y) == FAdd(x, FNeg(y))

\* the root part of a product of two finite numbers
ProductSign(x, y) ==
  IF x.s = 0 THEN Sgn(x.a.n) * y.s
  ELSE IF y.s = 0 THEN Sgn(y.a.n) * x.s
  ELSE x.s * y.s

ProductRoot(x, y) ==
  IF x.s = 0 THEN RMul(RMul(x.a, x.a), y.q)
  ELSE IF y.s = 0 THEN RMul(RMul(y.a, y.a), x.q)
  ELSE RMul(x.q, y.q)

FMul(x, y) ==
  IF x.k = "nan" \/ y.k = "nan" THEN NaN
  ELSE IF x.k = "unk" \/ y.k = "unk"
    THEN UnkProduct(x, y, SignOf(x) * SignOf(y))
  ELSE IF x.k = "inf" \/ y.k = "inf" THEN InfBy(SignOf(x) * SignOf(y))
  ELSE IF x.s # 0 /\ y.s # 0 /\ (x.a.n # 0 \/ y.a.n # 0) THEN Unk
  ELSE Fin(RMul(x.a, y.a), ProductSign(x, y), ProductRoot(x, y))

\* 1 / y for a nonzero rational or a root
Reciprocal(y) ==
  IF y.s = 0 THEN Rational(RInv(y.a)) ELSE Fin(RZero, y.s, RInv(y.q))

FDiv(x, y) ==
  IF x.k = "nan" \/ y.k = "nan" THEN NaN
  ELSE IF x.k = "unk" \/ y.k = "unk" THEN UnkQuotient(x, y)
  ELSE IF y.k = "inf" THEN (IF x.k = "inf" THEN NaN ELSE Num(0))
  ELSE IF IsZero(y) THEN InfBy(SignOf(x))
  ELSE IF x.k = "inf" THEN Inf(x.s * FSign(y))
  ELSE IF y.s # 0 /\ y.a.n # 0 THEN Unk
  ELSE FMul(x, Reciprocal(y))

SqrtBy(x, sign) ==
  IF sign < 0 THEN NaN
  ELSE IF x.k = "inf" THEN x
  ELSE IF x.s = 0 THEN Fin(RZero, 1, x.a)
  ELSE Unk

\* Math.sqrt
FSqrt(x) ==
  IF x.k = "nan" THEN x
  ELSE IF x.k = "unk" THEN (IF x.s < 0 THEN NaN ELSE x)
  ELSE SqrtBy(x, SignOf(x))

\* Math.pow(x, n) for n = 1, 2, 3, 4
RECURSIVE FPow(_, _)
FPow(x, n) == IF n = 1 THEN x ELSE FMul(FPow(x, n - 1), x)

Truth(b) == IF b THEN "true" ELSE "false"

\* x < y or x <= y from the difference y - x of two finite numbers
SignTruth(sign, strict) == Truth(sign > 0 \/ (~strict /\ sign = 0))

CompareBy(difference, strict) ==
  IF difference.k = "unk" /\ difference.s = 0 THEN "unk"
  ELSE SignTruth(FSign(difference), strict)

\* x < y and x <= y: "true", "false", or "unk" when an operand is
FCompare(x, y, strict) ==
  IF x.k = "nan" \/ y.k = "nan" THEN "false"
  ELSE IF x.k = "unk" \/ y.k = "unk"
    THEN (IF Signed(x) /\ Signed(y) THEN CompareBy(FSub(y, x), strict)
          ELSE IF x.k = "inf" /\ Signed(y) THEN Truth(x.s < 0)
          ELSE IF y.k = "inf" /\ Signed(x) THEN Truth(y.s > 0)
          ELSE "unk")
  ELSE IF x.k = "inf" /\ y.k = "inf"
    THEN Truth(x.s < y.s \/ (~strict /\ x.s = y.s))
  ELSE IF x.k = "inf" THEN Truth(x.s < 0)
  ELSE IF y.k = "inf" THEN Truth(y.s > 0)
  ELSE CompareBy(FSub(y, x), strict)

FLess(x, y) == FCompare(x, y, TRUE)

FLeq(x, y) == FCompare(x, y, FALSE)

\* ---------------------------------------------------- statisticalAnalysis
MaxLen == 3

SampleValues == {1, 2, 4}

\* the data vectors of up to MaxLen values
Samples == UNION {[1 .. n -> SampleValues] : n \in 0 .. MaxLen}

\* the second vector of a comparison
Probes == {<<>>, <<2>>, <<1, 2>>, <<4, 4>>}

\* confidence levels, in hundredths
Levels == {50, 90, 95, 99, 100}

\* the cells of a table of observed counts
Counts == {0, 1, 3}

\* the 2 x 2 tables of observed counts: every first row, and the second
\* rows that give the table a zero, an even and an uneven column
Tables == {<<row, other>> : row \in [1 .. 2 -> Counts],
                           other \in {<<0, 0>>, <<1, 1>>, <<1, 3>>}}

Numbers(data) == [i \in DOMAIN data |-> Num(data[i])]

\* reduce((a, b) => a + b, 0)
RECURSIVE AddUpTo(_, _)
AddUpTo(xs, n) == IF n = 0 THEN Num(0) ELSE FAdd(AddUpTo(xs, n - 1), xs[n])

AddAll(xs) == AddUpTo(xs, Len(xs))

\* reduce((sum, val) => sum + Math.pow(val - m, p), 0)
PowerSum(data, m, p) ==
  AddAll([i \in DOMAIN data |-> FPow(FSub(Num(data[i]), m), p)])

Sorted(data) == SortSeq(data, LAMBDA a, b : a < b)

\* sortedData[lower] * (1 - weight) + sortedData[upper] * weight
Interpolate(sortedData, lower, weight) ==
  IF weight.n = 0
    THEN Num(sortedData[lower + 1])
    ELSE FAdd(FMul(Num(sortedData[lower + 1]),
                   Rational(RAdd([n |-> 1, d |-> 1], RNeg(weight)))),
              FMul(Num(sortedData[lower + 2]), Rational(weight)))

\* index = (percentile / 100) * (length - 1), its floor and its fraction
PercentileAt(sortedData, index) ==
  Interpolate(sortedData, index.n \div index.d,
              [n |-> index.n % index.d, d |-> index.d])

calculatePercentile(sortedData, percentile) ==
  PercentileAt(sortedData, Rat(percentile * (Len(sortedData) - 1), 100))

AllZeroStats ==
  [mean |-> Num(0), median |-> Num(0), stdDev |-> Num(0),
   variance |-> Num(0), min |-> Num(0), max |-> Num(0), q1 |-> Num(0),
   q3 |-> Num(0), iqr |-> Num(0), skewness |-> Num(0), kurtosis |-> Num(0)]

\* sorted[i], undefined past the end of the array
Element(sorted, i) == IF i \in DOMAIN sorted THEN Num(sorted[i]) ELSE NaN

Median(sorted, n) ==
  IF n = 0 THEN NaN
  ELSE IF n % 2 = 0 THEN Frac(sorted[n \div 2] + sorted[n \div 2 + 1], 2)
  ELSE Num(sorted[n \div 2 + 1])

Quartile(sorted, percentile) ==
  IF Len(sorted) = 0 THEN NaN ELSE calculatePercentile(sorted, percentile)

StatsRecord(data, sorted, mean, variance, stdDev, q1, q3) ==
  [mean |-> mean,
   median |-> Median(sorted, Len(data)),
   stdDev |-> stdDev,
   variance |-> variance,
   min |-> Element(sorted, 1),
   max |-> Element(sorted, Len(data)),
   q1 |-> q1,
   q3 |-> q3,
   iqr |-> FSub(q3, q1),
   skewness |-> FDiv(PowerSum(data, mean, 3),
                     FMul(Num(Len(data)), FPow(stdDev, 3))),
   kurtosis |-> FSub(FDiv(PowerSum(data, mean, 4),
                          FMul(Num(Len(data)), FPow(stdDev, 4))),
                     Num(3))]

StatsWithVariance(data, sorted, mean, variance) ==
  StatsRecord(data, sorted, mean, variance, FSqrt(variance),
              Quartile(sorted, 25), Quartile(sorted, 75))

StatsWithMean(data, sorted, mean) ==
  StatsWithVariance(data, sorted, mean,
                    FDiv(PowerSum(data, mean, 2), Num(Len(data))))

StatsOf(data) ==
  StatsWithMean(data, Sorted(data),
                FDiv(AddAll(Numbers(data)), Num(Len(data))))

\* the function without its first test
calculateBasicStatsUnguarded(data) == StatsOf(data)

calculateBasicStats(data) ==
  IF Len(data) = 0 THEN AllZeroStats ELSE StatsOf(data)

\* zScores[confidenceLevel], undefined for a level that is not a key
getZScoreNoFallback(confidenceLevel) ==
  IF confidenceLevel = 90 THEN Frac(1645, 1000)
  ELSE IF confidenceLevel = 95 THEN Frac(196, 100)
  ELSE IF confidenceLevel = 99 THEN Frac(2576, 1000)
  ELSE NaN

\* zScores[confidenceLevel] || 1.96
getZScore(confidenceLevel) ==
  IF confidenceLevel = 90 THEN Frac(1645, 1000)
  ELSE IF confidenceLevel = 95 THEN Frac(196, 100)
  ELSE IF confidenceLevel = 99 THEN Frac(2576, 1000)
  ELSE Frac(196, 100)

IntervalAround(mean, marginOfError, confidenceLevel) ==
  [mean |-> mean,
   lowerBound |-> FSub(mean, marginOfError),
   upperBound |-> FAdd(mean, marginOfError),
   confidenceLevel |-> confidenceLevel,
   marginOfError |-> marginOfError]

IntervalOf(stats, n, confidenceLevel) ==
  IntervalAround(stats.mean,
                 FMul(getZScore(confidenceLevel),
                      FDiv(stats.stdDev, FSqrt(Num(n)))),
                 confidenceLevel)

calculateConfidenceInterval(data, confidenceLevel) ==
  IntervalOf(calculateBasicStats(data), Len(data), confidenceLevel)

\* Math.log and Math.exp at their limit points
LogBy(x, sign) ==
  IF sign < 0 THEN NaN
  ELSE IF x.k = "inf" THEN x
  ELSE IF sign = 0 THEN Inf(-1)
  ELSE IF x = Num(1) THEN Num(0)
  ELSE IF x.s = 0 THEN UnkOf(RCmp(x.a, [n |-> 1, d |-> 1]))
  ELSE Unk

FLog(x) ==
  IF x.k = "nan" THEN x
  ELSE IF x.k = "unk" THEN (IF x.s < 0 THEN NaN ELSE Unk)
  ELSE LogBy(x, SignOf(x))

FExp(x) ==
  IF x.k = "nan" THEN x
  ELSE IF x.k = "unk" THEN (IF x.s = 0 THEN Unk ELSE UnkOf(1))
  ELSE IF x.k = "inf" THEN (IF x.s > 0 THEN x ELSE Num(0))
  ELSE IF IsZero(x) THEN Num(1)
  ELSE UnkOf(1)

\* the loop of incompleteBeta runs while i < 100
MaxIterations == 100

\* the unit of the bounds kept of the loop's f: ten-thousandths
Unit == Pow10(4)

\* the least whole number not below n / d, d > 0
Ceiling(n, d) == -((-n) \div d)

\* bounds of (num / den) * x for x within xl .. xh, den > 0
Coefficient(num, den, xl, xh) ==
  IF num >= 0
    THEN [lo |-> (num * xl) \div den, hi |-> Ceiling(num * xh, den)]
    ELSE [lo |-> (num * xh) \div den, hi |-> Ceiling(num * xl, den)]

\* no bounds: f may be zero or negative
Unbounded == [lo |-> 0, hi |-> 0]

\* f = 1 + numerator / f for a numerator within c and f within its bounds
NextFraction(c, f) ==
  IF f.lo <= 0 THEN Unbounded
  ELSE [lo |-> Unit + (IF c.lo >= 0 THEN (c.lo * Unit) \div f.hi
                       ELSE (c.lo * Unit) \div f.lo),
        hi |-> Unit + (IF c.hi >= 0 THEN Ceiling(c.hi * Unit, f.lo)
                       ELSE Ceiling(c.hi * Unit, f.hi))]

\* one pass of the loop body with m = i / 2, a = a2 / 2 and b = b2 / 2:
\* the numerators are m (b - m) x / ((a + 2m)(a + 2m + 1)) and
\* -(a + m)(a + b + m) x / ((a + 2m + 1)(a + 2m + 2))
LoopBody(f, i, a2, b2, xl, xh) ==
  NextFraction(
    Coefficient(-((a2 + i) * (a2 + b2 + i)),
                (a2 + 2 * i + 2) * (a2 + 2 * i + 4), xl, xh),
    NextFraction(
      Coefficient(i * (b2 - i), (a2 + 2 * i) * (a2 + 2 * i + 2), xl, xh),
      f))

Join(g, f) ==
  [lo |-> IF f.lo < g.lo THEN f.lo ELSE g.lo,
   hi |-> IF f.hi > g.hi THEN f.hi ELSE g.hi]

\* the bounds f of the value after i passes and the bounds seen of the
\* values after the passes before, after one more pass
Pass(st, a2, b2, xl, xh) ==
  IF st.f.lo <= 0 \/ st.seen.lo <= 0
    THEN [f |-> Unbounded, seen |-> Unbounded, i |-> st.i + 1]
    ELSE [f |-> LoopBody(st.f, st.i, a2, b2, xl, xh),
          seen |-> Join(st.seen, st.f), i |-> st.i + 1]

\* the passes of the loop, taken ten at a time
BlockLength == 10

RECURSIVE Passes(_, _, _, _, _, _)
Passes(st, n, a2, b2, xl, xh) ==
  IF n = 0 \/ st.i < 0 THEN st
  ELSE Passes(Pass(st, a2, b2, xl, xh), n - 1, a2, b2, xl, xh)

RECURSIVE Blocks(_, _, _, _, _)
Blocks(st, a2, b2, xl, xh) ==
  IF st.i >= MaxIterations THEN st
  ELSE Blocks(Passes(st, Min(BlockLength, MaxIterations - st.i),
                     a2, b2, xl, xh),
              a2, b2, xl, xh)

\* bounds of every value f has after a pass of the loop, whichever pass
\* is the last: the first pass is always made, the loop ends after
\* MaxIterations passes at the latest
Ended(st) == IF st.f.lo <= 0 \/ st.seen.lo <= 0 THEN Unbounded
             ELSE Join(st.seen, st.f)

LoopBounds(a2, b2, xl, xh) ==
  Ended(Blocks([f |-> LoopBody([lo |-> Unit, hi |-> Unit], 0,
                               a2, b2, xl, xh),
                seen |-> [lo |-> Unit, hi |-> Unit], i |-> 1],
               a2, b2, xl, xh))

\* a number within the bounds, in units
Within(bounds) ==
  IF bounds.lo <= 0 THEN Unk
  ELSE IF bounds.lo = bounds.hi THEN Frac(bounds.lo, Unit)
  ELSE UnkOf(1)

\* a whole number of halves
InHalves(a) == a.k = "fin" /\ a.s = 0 /\ a.a.d \in {1, 2}

\* the value f the loop of incompleteBeta ends with: NaN when a = 0, where
\* the first numerator is 0 / 0; 1 at x = 0, where both numerators are 0;
\* for a and b in halves and a rational x, a number within the bounds of
\* the passes; otherwise not computed
ContinuedFraction(x, a, b) ==
  IF x.k = "nan" \/ a.k = "nan" \/ b.k = "nan" THEN NaN
  ELSE IF IsZero(a) /\ x.k = "fin" /\ b.k = "fin" THEN NaN
  ELSE IF IsZero(x) /\ a.k = "fin" /\ b.k = "fin" /\ FSign(a) > 0
    THEN Num(1)
  ELSE IF InHalves(a) /\ InHalves(b) /\ FSign(a) > 0
          /\ x.k = "fin" /\ x.s = 0
    THEN Within(LoopBounds(a.a.n * (2 \div a.a.d), b.a.n * (2 \div b.a.d),
                           (x.a.n * Unit) \div x.a.d,
                           Ceiling(x.a.n * Unit, x.a.d)))
  ELSE Unk

\* x / f for the loop's f, nonzero where it is not computed
OverFraction(x, f) == IF f.k = "unk" /\ IsZero(x) THEN Num(0) ELSE FDiv(x, f)

incompleteBeta(x, a, b) ==
  IF FLess(x, Num(0)) = "true" THEN Num(0)
  ELSE IF FLess(Num(1), x) = "true" THEN Num(1)
  ELSE OverFraction(
         FDiv(FExp(FAdd(FMul(a, FLog(x)),
                        FMul(b, FLog(FSub(Num(1), x))))), a),
         ContinuedFraction(x, a, b))

tCDF(t, df) ==
  FDiv(incompleteBeta(FDiv(df, FAdd(df, FMul(t, t))),
                      FDiv(df, Num(2)), Frac(1, 2)),
       Num(2))

\* incompleteBeta(product / (product + df2), ...), product = df1 * f
BetaOfProduct(product, df1, df2) ==
  incompleteBeta(FDiv(product, FAdd(product, df2)),
                 FDiv(df1, Num(2)), FDiv(df2, Num(2)))

fCDF(f, df1, df2) == BetaOfProduct(FMul(df1, f), df1, df2)

\* isSignificant = pValue < 0.05
TestResultFixed(testStatistic, pValue, confidenceLevel) ==
  [testStatistic |-> testStatistic,
   pValue |-> pValue,
   isSignificant |-> FLess(pValue, Frac(5, 100)),
   confidenceLevel |-> confidenceLevel]

TestResult(testStatistic, pValue, confidenceLevel) ==
  [testStatistic |-> testStatistic,
   pValue |-> pValue,
   isSignificant |-> FLess(pValue, Frac(100 - confidenceLevel, 100)),
   confidenceLevel |-> confidenceLevel]

\* pValue = 2 * (1 - tCDF(Math.abs(tStatistic), df))
TTestResult(tStatistic, df, confidenceLevel) ==
  TestResult(tStatistic,
             FMul(Num(2), FSub(Num(1), tCDF(FAbs(tStatistic), df))),
             confidenceLevel)

\* Welch's degrees of freedom from v1 = variance1 / n1, v2 = variance2 / n2
WelchDf(v1, v2, n1, n2) ==
  FDiv(FPow(FAdd(v1, v2), 2),
       FAdd(FDiv(FPow(v1, 2), Num(n1 - 1)), FDiv(FPow(v2, 2), Num(n2 - 1))))

TTestFrom(mean1, mean2, v1, v2, n1, n2, confidenceLevel) ==
  TTestResult(FDiv(FSub(mean1, mean2), FSqrt(FAdd(v1, v2))),
              WelchDf(v1, v2, n1, n2), confidenceLevel)

TTestOf(stats1, stats2, n1, n2, confidenceLevel) ==
  TTestFrom(stats1.mean, stats2.mean,
            FDiv(stats1.variance, Num(n1)), FDiv(stats2.variance, Num(n2)),
            n1, n2, confidenceLevel)

independentTTest(data1, data2, confidenceLevel) ==
  TTestOf(calculateBasicStats(data1), calculateBasicStats(data2),
          Len(data1), Len(data2), confidenceLevel)

\* groups.reduce((sum, g) => sum + g.length, 0)
RECURSIVE TotalLength(_, _)
TotalLength(groups, n) ==
  IF n = 0 THEN 0 ELSE TotalLength(groups, n - 1) + Len(groups[n])

\* the groups' values in one array
RECURSIVE Concat(_, _)
Concat(groups, n) ==
  IF n = 0 THEN <<>> ELSE Concat(groups, n - 1) \o groups[n]

\* the F-statistic from the group means and the grand mean
FStatistic(groups, means, grandMean) ==
  FDiv(FDiv(AddAll([i \in DOMAIN groups |->
                      FMul(Num(Len(groups[i])),
                           FPow(FSub(means[i], grandMean), 2))]),
            Num(Len(groups) - 1)),
       FDiv(AddAll([i \in DOMAIN groups |-> PowerSum(groups[i], means[i], 2)]),
            Num(TotalLength(groups, Len(groups)) - Len(groups))))

AnovaResult(fStatistic, df1, df2, confidenceLevel) ==
  TestResult(fStatistic,
             FSub(Num(1), fCDF(fStatistic, Num(df1), Num(df2))),
             confidenceLevel)

anovaTest(groups, confidenceLevel) ==
  AnovaResult(
    FStatistic(groups,
               [i \in DOMAIN groups |-> calculateBasicStats(groups[i]).mean],
               FDiv(AddAll(Numbers(Concat(groups, Len(groups)))),
                    Num(TotalLength(groups, Len(groups))))),
    Len(groups) - 1,
    TotalLength(groups, Len(groups)) - Len(groups),
    confidenceLevel)

\* incompleteBeta(x / 2, df / 2, 0.5)
chiSquareCDF(x, df) ==
  incompleteBeta(FDiv(x, Num(2)), FDiv(Num(df), Num(2)), Frac(1, 2))

\* observed.reduce((sum, row) => sum + row[i], 0)
ColumnTotal(observed, j) ==
  AddAll([i \in DOMAIN observed |-> Num(observed[i][j])])

\* Math.pow(observed[i][j] - expected, 2) / expected
CellTerm(value, expected) ==
  FDiv(FPow(FSub(Num(value), expected), 2), expected)

\* the statistic summed row by row over the cells
ChiSquareOf(observed, rowTotals, colTotals, total) ==
  AddAll([i \in DOMAIN observed |->
            AddAll([j \in DOMAIN observed[i] |->
                      CellTerm(observed[i][j],
                               FDiv(FMul(rowTotals[i], colTotals[j]),
                                    total))])])

ChiSquareResult(chiSquare, df, confidenceLevel) ==
  TestResult(chiSquare, FSub(Num(1), chiSquareCDF(chiSquare, df)),
             confidenceLevel)

ChiSquareFrom(observed, rowTotals, colTotals, confidenceLevel) ==
  ChiSquareResult(ChiSquareOf(observed, rowTotals, colTotals,
                              AddAll(rowTotals)),
                  (Len(observed) - 1) * (Len(observed[1]) - 1),
                  confidenceLevel)

chiSquareTest(observed, confidenceLevel) ==
  ChiSquareFrom(observed,
                [i \in DOMAIN observed |-> AddAll(Numbers(observed[i]))],
                [j \in DOMAIN observed[1] |-> ColumnTotal(observed, j)],
                confidenceLevel)

\* data.slice(0, n)
Take(data, n) == SubSeq(data, 1, n)

\* the mean of the whole array, not of its first n values
WholeMean(data, n) == FDiv(AddAll(Numbers(data)), Num(Len(data)))

\* data.slice(0, n).reduce((a, b) => a + b, 0) / n
SliceMean(data, n) == FDiv(AddAll(Numbers(Take(data, n))), Num(n))

\* numerator / Math.sqrt(denominator1 * denominator2) after the loop
CorrelationFrom(data1, data2, n, mean1, mean2) ==
  FDiv(AddAll([i \in 1 .. n |->
                 FMul(FSub(Num(data1[i]), mean1), FSub(Num(data2[i]), mean2))]),
       FSqrt(FMul(PowerSum(Take(data1, n), mean1, 2),
                  PowerSum(Take(data2, n), mean2, 2))))

CorrelationOver(data1, data2, n) ==
  CorrelationFrom(data1, data2, n, SliceMean(data1, n), SliceMean(data2, n))

pearsonCorrelation(data1, data2) ==
  CorrelationOver(data1, data2, Min(Len(data1), Len(data2)))

\* ------------------------------------------------------- HypothesisTests
mean(data) == FDiv(AddAll(Numbers(data)), Num(Len(data)))

fDistributionCDF(f, df1, df2) ==
  IF FLess(f, Num(0)) = "true" THEN Num(0)
  ELSE IF IsZero(f) THEN Num(0)
  ELSE FSub(Num(1),
            FExp(FDiv(FMul(FNeg(f), Num(df1)), Num(df1 + df2))))

\* Math.round(x * scale) / scale
RoundTo(x, scale) ==
  IF x.k = "unk" THEN Unk
  ELSE IF x.k # "fin" THEN x
  ELSE IF x.s # 0 THEN Unk
  ELSE Frac((2 * scale * x.a.n + x.a.d) \div (2 * x.a.d), scale)

\* data.reduce(...) / (data.length - 1)
variance(data) ==
  FDiv(PowerSum(data, mean(data), 2), Num(Len(data) - 1))

\* Math.tanh at its limit points
FTanh(x) ==
  IF x.k = "nan" \/ x.k = "unk" THEN x
  ELSE IF x.k = "inf" THEN Num(x.s)
  ELSE IF IsZero(x) THEN Num(0)
  ELSE UnkOf(FSign(x))

\* erf: sign * y with t = 1 / (1 + p * x), y = 1 - poly(t) * t * exp(-x * x);
\* for an infinite x, t = 0 and y = 1
erf(x) ==
  IF x.k = "nan" THEN NaN
  ELSE IF x.k = "inf" THEN Num(x.s)
  ELSE Unk

tDistributionCDF(t, df) ==
  IF FLess(Num(30), df) = "true"
    THEN FMul(Frac(1, 2), FAdd(Num(1), erf(FDiv(FAbs(t), FSqrt(Num(2))))))
    ELSE FAdd(Frac(1, 2),
              FMul(Frac(1, 2),
                   FTanh(FDiv(FAbs(t), FSqrt(FAdd(df, Num(1)))))))

TTestRecord(t_statistic, p_value, df, effect_size) ==
  [t_statistic |-> RoundTo(t_statistic, 1000),
   p_value |-> RoundTo(p_value, 10000),
   degrees_freedom |-> RoundTo(df, 1),
   significant |-> FLess(p_value, Frac(5, 100)),
   effect_size |-> RoundTo(effect_size, 1000)]

\* the result from v1 / n1, v2 / n2 and the pooled standard deviation
PerformTTestFrom(difference, w1, w2, n1, n2, pooled_std) ==
  TTestRecord(
    FDiv(difference, FSqrt(FAdd(w1, w2))),
    FMul(Num(2),
         FSub(Num(1),
              tDistributionCDF(FAbs(FDiv(difference, FSqrt(FAdd(w1, w2)))),
                               WelchDf(w1, w2, n1, n2)))),
    WelchDf(w1, w2, n1, n2),
    FAbs(FDiv(difference, pooled_std)))

PerformTTestOf(m1, m2, v1, v2, n1, n2) ==
  PerformTTestFrom(
    FSub(m1, m2), FDiv(v1, Num(n1)), FDiv(v2, Num(n2)), n1, n2,
    FSqrt(FDiv(FAdd(FMul(Num(n1 - 1), v1), FMul(Num(n2 - 1), v2)),
               Num(n1 + n2 - 2))))

performTTest(sample1, sample2) ==
  PerformTTestOf(mean(sample1), mean(sample2), variance(sample1),
                 variance(sample2), Len(sample1), Len(sample2))

ANOVAResult(f_statistic, p_value, df_between, df_within) ==
  [f_statistic |-> RoundTo(f_statistic, 1000),
   p_value |-> RoundTo(p_value, 10000),
   df_between |-> df_between,
   df_within |-> df_within,
   significant |-> FLess(p_value, Frac(5, 100))]

ANOVAFrom(f_statistic, df_between, df_within) ==
  ANOVAResult(f_statistic,
              FSub(Num(1),
                   fDistributionCDF(f_statistic, df_between, df_within)),
              df_between, df_within)

ANOVAOf(samples, n, k) ==
  ANOVAFrom(FStatistic(samples, [i \in DOMAIN samples |-> mean(samples[i])],
                       mean(Concat(samples, k))),
            k - 1, n - k)

performANOVA(sample1, sample2, sample3) ==
  ANOVAOf(<<sample1, sample2, sample3>>,
          Len(sample1) + Len(sample2) + Len(sample3), 3)

\* ------------------------------------------------- numbers as binary64
\* A positive double is m * 2^exp with m an integer of Precision bits,
\* kept as the sequence of its bits, the first of them 1; zero has no bits.
\* Sums and quotients are rounded to the nearest double, ties to even.
Precision == 53

Zeros(n) == [i \in 1 .. n |-> 0]

\* the four bits of a hexadecimal digit
Nibble(d) == <<d \div 8, (d \div 4) % 2, (d \div 2) % 2, d % 2>>

RECURSIVE FromHex(_)
FromHex(digits) ==
  IF digits = <<>> THEN <<>> ELSE Nibble(Head(digits)) \o FromHex(Tail(digits))

RECURSIVE Strip(_)
Strip(bits) ==
  IF bits # <<>> /\ Head(bits) = 0 THEN Strip(Tail(bits)) ELSE bits

Double(digits, exp) == [bits |-> Strip(FromHex(digits)), exp |-> exp]

DoubleZero == [bits |-> <<>>, exp |-> 0]

\* 0.1, 0.3, 0.7 and 1 as doubles
DoubleValues ==
  {Double(<<1, 9, 9, 9, 9, 9, 9, 9, 9, 9, 9, 9, 9, 10>>, -56),
   Double(<<1, 3, 3, 3, 3, 3, 3, 3, 3, 3, 3, 3, 3, 3>>, -54),
   Double(<<1, 6, 6, 6, 6, 6, 6, 6, 6, 6, 6, 6, 6, 6>>, -53),
   Double(<<1, 0, 0, 0, 0, 0, 0, 0, 0, 0, 0, 0, 0, 0>>, -52)}

\* the vectors of up to MaxLen doubles
DoubleSamples == UNION {[1 .. n -> DoubleValues] : n \in 0 .. MaxLen}

\* the bits of a + b for two sequences of length k, from the last bit up
RECURSIVE AddFrom(_, _, _, _)
AddFrom(a, b, k, carry) ==
  IF k = 0 THEN (IF carry = 1 THEN <<1>> ELSE <<>>)
  ELSE IF a[k] + b[k] + carry >= 2
    THEN Append(AddFrom(a, b, k - 1, 1), a[k] + b[k] + carry - 2)
    ELSE Append(AddFrom(a, b, k - 1, 0), a[k] + b[k] + carry)

PadLeft(bits, n) == Zeros(n - Len(bits)) \o bits

SumBits(a, b, n) == AddFrom(PadLeft(a, n), PadLeft(b, n), n, 0)

\* Precision bits after a carry out of the first one
Normal(bits, exp) ==
  IF Len(bits) > Precision
    THEN [bits |-> SubSeq(bits, 1, Precision), exp |-> exp + 1]
    ELSE [bits |-> bits, exp |-> exp]

\* the first Precision bits, one added when the rest is above a half, or
\* is a half and the last bit kept is odd
Nearest(kept, rest, sticky, exp) ==
  IF Head(rest) = 1
     /\ (sticky \/ kept[Precision] = 1 \/ \E i \in 2 .. Len(rest) : rest[i] = 1)
    THEN Normal(AddFrom(kept, Zeros(Precision), Precision, 1), exp)
    ELSE [bits |-> kept, exp |-> exp]

\* the double nearest to bits * 2^exp (plus a fraction of the last bit
\* when sticky), bits starting with 1
Rounded(bits, exp, sticky) ==
  IF Len(bits) <= Precision
    THEN [bits |-> bits \o Zeros(Precision - Len(bits)),
          exp |-> exp - (Precision - Len(bits))]
    ELSE Nearest(SubSeq(bits, 1, Precision),
                 SubSeq(bits, Precision + 1, Len(bits)), sticky,
                 exp + Len(bits) - Precision)

\* x + y at the smaller exponent e of the two
SumAt(a, b, e) ==
  Rounded(SumBits(a, b, IF Len(a) > Len(b) THEN Len(a) ELSE Len(b)), e, FALSE)

DoubleSumAt(x, y, e) ==
  SumAt(x.bits \o Zeros(x.exp - e), y.bits \o Zeros(y.exp - e), e)

\* a + b
DoubleAdd(x, y) ==
  IF x.bits = <<>> THEN y
  ELSE IF y.bits = <<>> THEN x
  ELSE DoubleSumAt(x, y, IF x.exp < y.exp THEN x.exp ELSE y.exp)

\* long division of bits by n from position k on: the quotient's bits q
\* and the remainder r so far
RECURSIVE DivideFrom(_, _, _, _, _)
DivideFrom(bits, n, k, r, q) ==
  IF k > Len(bits) \/ r < 0 \/ Len(q) < 0 THEN [q |-> q, r |-> r]
  ELSE DivideFrom(bits, n, k + 1, (2 * r + bits[k]) % n,
                  Append(q, (2 * r + bits[k]) \div n))

QuotientOf(division, exp) ==
  Rounded(Strip(division.q), exp, division.r # 0)

\* x / n for a whole n >= 1, divided with n + 2 further bits
DoubleDiv(x, n) ==
  IF x.bits = <<>> THEN x
  ELSE QuotientOf(DivideFrom(x.bits \o Zeros(n + 2), n, 1, 0, <<>>),
                  x.exp - (n + 2))

\* a < b for two sequences of Precision bits
BitsLess(a, b) ==
  \E i \in 1 .. Precision :
    a[i] < b[i] /\ \A j \in 1 .. i - 1 : a[j] = b[j]

\* x <= y
DoubleLeq(x, y) ==
  IF x.bits = <<>> THEN TRUE
  ELSE IF y.bits = <<>> THEN FALSE
  ELSE IF x.exp # y.exp THEN x.exp < y.exp
  ELSE ~BitsLess(y.bits, x.bits)

\* data.reduce((a, b) => a + b, 0)
RECURSIVE DoubleSum(_, _)
DoubleSum(data, n) ==
  IF n = 0 THEN DoubleZero ELSE DoubleAdd(DoubleSum(data, n - 1), data[n])

\* sorted[0] and sorted[n - 1]
Least(data) ==
  CHOOSE x \in {data[i] : i \in DOMAIN data} :
    \A i \in DOMAIN data : DoubleLeq(x, data[i])

Greatest(data) ==
  CHOOSE x \in {data[i] : i \in DOMAIN data} :
    \A i \in DOMAIN data : DoubleLeq(data[i], x)

\* the mean, min and max of calculateBasicStats as doubles; the other
\* fields, which need Math.pow and Math.sqrt, are not computed here
calculateBasicStatsRounded(data) ==
  IF Len(data) = 0
    THEN [mean |-> DoubleZero, min |-> DoubleZero, max |-> DoubleZero]
    ELSE [mean |-> DoubleDiv(DoubleSum(data, Len(data)), Len(data)),
          min |-> Least(data),
          max |-> Greatest(data)]

RoundingInit ==
  /\ NetworkIdle
  /\ PageIdle
  /\ RunIdle
  /\ CustomizerIdle
  /\ \E data \in DoubleSamples : args = [data |-> data, passed |-> <<>>]
  /\ fn = "none"
  /\ result = <<>>

CallBasicStatsRounded ==
  /\ fn = "none"
  /\ fn' = "calculateBasicStats"
  /\ args' = [args EXCEPT !.passed = <<args.data>>]
  /\ result' = calculateBasicStatsRounded(args.data)
  /\ UNCHANGED <<netVars, runVars, customizerVars, pageVars>>

RoundingNext == CallBasicStatsRounded

RoundingSpec == RoundingInit /\ [][RoundingNext]_vars

\* ------------------------------------------ calls of incompleteBeta
\* the points of [0, 1] and the positive parameters the calls are made at
BetaPoints == {Num(0), Frac(1, 4), Frac(1, 2), Frac(3, 4), Num(1)}

BetaParameters == {Frac(1, 2), Num(1), Frac(3, 2), Num(2)}

BetaInit ==
  /\ NetworkIdle
  /\ PageIdle
  /\ RunIdle
  /\ CustomizerIdle
  /\ \E x1 \in BetaPoints, x2 \in BetaPoints,
        a \in BetaParameters, b \in BetaParameters :
       args = [x1 |-> x1, x2 |-> x2, a |-> a, b |-> b]
  /\ fn = "none"
  /\ result = <<>>

\* incompleteBeta at both points with the same parameters
CallIncompleteBeta ==
  /\ fn = "none"
  /\ fn' = "incompleteBeta"
  /\ result' = <<incompleteBeta(args.x1, args.a, args.b),
                 incompleteBeta(args.x2, args.a, args.b)>>
  /\ UNCHANGED <<args, netVars, runVars, customizerVars, pageVars>>

BetaNext == CallIncompleteBeta

BetaSpec == BetaInit /\ [][BetaNext]_vars

\* ---------------------------------------------- calls of the statistics
StatInit ==
  /\ NetworkIdle
  /\ PageIdle
  /\ RunIdle
  /\ CustomizerIdle
  /\ \E data \in Samples, other \in Probes, confidenceLevel \in Levels :
       args = [data |-> data, other |-> other,
               confidenceLevel |-> confidenceLevel, passed |-> <<>>]
  /\ fn = "none"
  /\ result = <<>>

Call(name, passed, returned) ==
  /\ fn' = name
  /\ args' = [args EXCEPT !.passed = passed]
  /\ result' = returned
  /\ UNCHANGED <<netVars, runVars, customizerVars, pageVars>>

\* the group lists tried: three times the same group, and mixed ones
GroupLists ==
  {gs \in {<<args.data, args.data, args.data>>,
           <<args.data, args.other, args.data>>,
           <<args.other, args.data, args.other>>} :
     \A i \in DOMAIN gs : Len(gs[i]) > 0}

CallBasicStats ==
  /\ fn = "none"
  /\ Call("calculateBasicStats", <<args.data>>,
          calculateBasicStats(args.data))

CallConfidenceInterval ==
  /\ fn = "none"
  /\ Call("calculateConfidenceInterval", <<args.data, args.confidenceLevel>>,
          calculateConfidenceInterval(args.data, args.confidenceLevel))

CallTTest ==
  /\ fn = "none"
  /\ \E data2 \in {args.data, args.other} :
       Call("independentTTest", <<args.data, data2, args.confidenceLevel>>,
            independentTTest(args.data, data2, args.confidenceLevel))

CallAnovaTest ==
  /\ fn = "none"
  /\ \E groups \in GroupLists :
       Call("anovaTest", <<groups, args.confidenceLevel>>,
            anovaTest(groups, args.confidenceLevel))

CallPerformANOVA ==
  /\ fn = "none"
  /\ \E groups \in GroupLists :
       Call("performANOVA", groups,
            performANOVA(groups[1], groups[2], groups[3]))

CallPearsonCorrelation ==
  /\ fn = "none"
  /\ \E data2 \in {args.data, args.other} :
       Call("pearsonCorrelation", <<args.data, data2>>,
            pearsonCorrelation(args.data, data2))

CallChiSquareTest ==
  /\ fn = "none"
  /\ \E observed \in Tables :
       Call("chiSquareTest", <<observed, args.confidenceLevel>>,
            chiSquareTest(observed, args.confidenceLevel))

CallPerformTTest ==
  /\ fn = "none"
  /\ \E sample2 \in {args.data, args.other} :
       Call("performTTest", <<args.data, sample2>>,
            performTTest(args.data, sample2))

StatNext ==
  \/ CallBasicStats
  \/ CallPerformTTest
  \/ CallChiSquareTest
  \/ CallPearsonCorrelation
  \/ CallConfidenceInterval
  \/ CallTTest
  \/ CallAnovaTest
  \/ CallPerformANOVA

StatSpec == StatInit /\ [][StatNext]_vars

\* a vector with two different values at least
Varies(data) == \E i, j \in DOMAIN data : data[i] # data[j]

StatFields == {"mean", "median", "stdDev", "variance", "min", "max",
               "q1", "q3", "iqr", "skewness", "kurtosis"}

\* ------------------------------------------- metrics from a scenario
StrategyTypes == {"Fixed-time", "Rule-based", "RL-based"}

Metrics == {"waitingTime", "queueLength", "throughput", "efficiency"}

ScenarioFlows == {0, 100}

ScenarioLevels == {0, 100}

\* the scenario argument left out
NoScenario ==
  [given |-> FALSE, northFlow |-> 0, eastFlow |-> 0, southFlow |-> 0,
   westFlow |-> 0, incidentActive |-> FALSE, incidentSeverity |-> 0,
   peakHourActive |-> FALSE, peakHourIntensity |-> 0]

Scenarios ==
  [given : {TRUE}, northFlow : ScenarioFlows, eastFlow : ScenarioFlows,
   southFlow : ScenarioFlows, westFlow : ScenarioFlows,
   incidentActive : BOOLEAN, incidentSeverity : ScenarioLevels,
   peakHourActive : BOOLEAN, peakHourIntensity : ScenarioLevels]

\* 1 + (avgFlow / 100) * 1.5
flowMultiplierFromOne(sc) ==
  FAdd(Num(1),
       FMul(Frac(sc.northFlow + sc.eastFlow + sc.southFlow + sc.westFlow,
                 400),
            Frac(3, 2)))

\* 0.5 + (avgFlow / 100) * 1.5
flowMultiplier(sc) ==
  FAdd(Frac(1, 2),
       FMul(Frac(sc.northFlow + sc.eastFlow + sc.southFlow + sc.westFlow,
                 400),
            Frac(3, 2)))

incidentMultiplier(sc) ==
  IF sc.incidentActive THEN Frac(200 + sc.incidentSeverity, 200) ELSE Num(1)

peakMultiplier(sc) ==
  IF sc.peakHourActive THEN Frac(200 + sc.peakHourIntensity, 200) ELSE Num(1)

totalMultiplier(sc) ==
  FMul(FMul(flowMultiplier(sc), incidentMultiplier(sc)), peakMultiplier(sc))

\* Math.max: NaN when an argument is NaN
FMax(x, y) ==
  IF x.k = "nan" \/ y.k = "nan" THEN NaN
  ELSE IF FLess(x, y) = "true" THEN y
  ELSE IF FLess(x, y) = "false" THEN x
  ELSE Unk

\* the table of generateSampleData and getBaseMetrics
baseValues ==
  [s \in StrategyTypes |->
     IF s = "Fixed-time"
       THEN [waitingTime |-> Frac(95, 2), queueLength |-> Frac(61, 4),
             throughput |-> Num(60), efficiency |-> Num(35)]
     ELSE IF s = "Rule-based"
       THEN [waitingTime |-> Frac(101, 4), queueLength |-> Frac(1, 2),
             throughput |-> Num(85), efficiency |-> Num(75)]
     ELSE [waitingTime |-> Frac(43, 2), queueLength |-> Frac(1, 5),
           throughput |-> Frac(191, 2), efficiency |-> Num(95)]]

\* the table calculateMetrics returns from when no scenario is given
baseMetrics ==
  [s \in StrategyTypes |->
     IF s = "Fixed-time"
       THEN [waitingTime |-> Frac(95, 2), queueLength |-> Frac(61, 4),
             throughput |-> Num(60), efficiency |-> Num(35),
             congestionEvents |-> Num(12), averageDelay |-> Num(45)]
     ELSE IF s = "Rule-based"
       THEN [waitingTime |-> Frac(101, 4), queueLength |-> Num(0),
             throughput |-> Num(85), efficiency |-> Num(75),
             congestionEvents |-> Num(3), averageDelay |-> Num(22)]
     ELSE [waitingTime |-> Frac(43, 2), queueLength |-> Num(0),
           throughput |-> Frac(191, 2), efficiency |-> Num(95),
           congestionEvents |-> Num(0), averageDelay |-> Num(18)]]

\* generateSampleData's baseValue, the mean of the samples it draws
ScaledBaseValue(value, metric, multiplier) ==
  IF metric \in {"waitingTime", "queueLength"}
    THEN FMul(value, multiplier)
    ELSE FDiv(value, multiplier)

\* baseValues[strategy][metric] || 50
BaseOf(strategy, metric) ==
  IF metric \in DOMAIN baseValues[strategy]
       /\ ~IsZero(baseValues[strategy][metric])
    THEN baseValues[strategy][metric]
    ELSE Num(50)

baseValue(strategy, metric, sc) ==
  IF sc.given
    THEN ScaledBaseValue(BaseOf(strategy, metric), metric,
                         totalMultiplier(sc))
    ELSE BaseOf(strategy, metric)

\* the factors of a strategy on waiting time, throughput and efficiency,
\* and the floors of its throughput and efficiency
Sensitivity ==
  [s \in StrategyTypes |->
     IF s = "Fixed-time"
       THEN [waiting |-> Num(1), throughput |-> Num(1),
             efficiency |-> Num(1), minThroughput |-> Num(10),
             minEfficiency |-> Num(5)]
     ELSE IF s = "Rule-based"
       THEN [waiting |-> Frac(7, 10), throughput |-> Frac(6, 10),
             efficiency |-> Frac(5, 10), minThroughput |-> Num(30),
             minEfficiency |-> Num(40)]
     ELSE [waiting |-> Frac(5, 10), throughput |-> Frac(4, 10),
           efficiency |-> Frac(3, 10), minThroughput |-> Num(50),
           minEfficiency |-> Num(70)]]

\* the events and the delay of a strategy under a scenario
EventBase ==
  [s \in StrategyTypes |->
     IF s = "Fixed-time" THEN Num(12)
     ELSE IF s = "Rule-based" THEN Frac(21, 10)
     ELSE Frac(1, 2)]

MetricsUnder(strategy, multiplier) ==
  [waitingTime |->
     FMul(baseMetrics[strategy].waitingTime,
          FMul(multiplier, Sensitivity[strategy].waiting)),
   queueLength |-> FMul(baseValues[strategy].queueLength, multiplier),
   throughput |->
     FMax(Sensitivity[strategy].minThroughput,
          FDiv(baseMetrics[strategy].throughput,
               FMul(multiplier, Sensitivity[strategy].throughput))),
   efficiency |->
     FMax(Sensitivity[strategy].minEfficiency,
          FDiv(baseMetrics[strategy].efficiency,
               FMul(multiplier, Sensitivity[strategy].efficiency))),
   congestionEvents |-> RoundTo(FMul(EventBase[strategy], multiplier), 1),
   averageDelay |->
     FMul(baseMetrics[strategy].averageDelay,
          FMul(multiplier, Sensitivity[strategy].waiting))]

calculateMetrics(strategy, sc) ==
  IF sc.given
    THEN MetricsUnder(strategy, totalMultiplier(sc))
    ELSE baseMetrics[strategy]

BaseMetricsUnder(strategy, multiplier) ==
  [waiting |->
     FMul(baseValues[strategy].waitingTime,
          FMul(multiplier, Sensitivity[strategy].waiting)),
   queue |-> FMul(baseValues[strategy].queueLength, multiplier),
   throughput |->
     FMax(Sensitivity[strategy].minThroughput,
          FDiv(baseValues[strategy].throughput,
               FMul(multiplier, Sensitivity[strategy].throughput)))]

getBaseMetrics(strategy, sc) ==
  IF sc.given
    THEN BaseMetricsUnder(strategy, totalMultiplier(sc))
    ELSE [waiting |-> baseValues[strategy].waitingTime,
          queue |-> baseValues[strategy].queueLength,
          throughput |-> baseValues[strategy].throughput]

MetricsInit ==
  /\ NetworkIdle
  /\ PageIdle
  /\ RunIdle
  /\ CustomizerIdle
  /\ \E strategy \in StrategyTypes, metric \in Metrics,
        sc \in Scenarios \cup {NoScenario} :
       args = [strategy |-> strategy, metric |-> metric, scenario |-> sc,
               passed |-> <<>>]
  /\ fn = "none"
  /\ result = <<>>

CallGenerateSampleData ==
  /\ fn = "none"
  /\ Call("generateSampleData", <<args.strategy, args.metric, args.scenario>>,
          baseValue(args.strategy, args.metric, args.scenario))

CallCalculateMetrics ==
  /\ fn = "none"
  /\ Call("calculateMetrics", <<args.strategy, args.scenario>>,
          calculateMetrics(args.strategy, args.scenario))

CallGetBaseMetrics ==
  /\ fn = "none"
  /\ Call("getBaseMetrics", <<args.strategy, args.scenario>>,
          getBaseMetrics(args.strategy, args.scenario))

MetricsNext ==
  \/ CallGenerateSampleData
  \/ CallCalculateMetrics
  \/ CallGetBaseMetrics

MetricsSpec == MetricsInit /\ [][MetricsNext]_vars

\* all flows 0, no incident, no peak hour
ZeroScenario(sc) ==
  /\ sc.given
  /\ sc.northFlow = 0 /\ sc.eastFlow = 0 /\ sc.southFlow = 0
  /\ sc.westFlow = 0
  /\ ~sc.incidentActive /\ ~sc.peakHourActive

\* ------------------------------------------------- the samples drawn
\* the count of samples of generateSampleData when none is passed, and
\* the count of generateDistributionData
DefaultSamples == 100

DistributionSamples == 100

varianceMultiplier ==
  [s \in StrategyTypes |->
     IF s = "Fixed-time" THEN Frac(25, 100)
     ELSE IF s = "Rule-based" THEN Frac(15, 100)
     ELSE Frac(8, 100)]

\* Math.cos(2 * Math.PI * u) for u in [0, 1): 1 at u = 0 and -1 at
\* u = 1/2; elsewhere not computed, and of the sign of the quadrant,
\* the quarter turns included, where the cosine of the binary64
\* argument is 6.1e-17 and -1.8e-16
CosTurn(u) ==
  IF IsZero(u) THEN Num(1)
  ELSE IF u = Frac(1, 2) THEN Num(-1)
  ELSE IF FLeq(u, Frac(1, 4)) = "true" \/ FLess(Frac(3, 4), u) = "true"
    THEN UnkOf(1)
  ELSE UnkOf(-1)

\* z of the Box-Muller transform
BoxMuller(u1, u2) ==
  FMul(FSqrt(FMul(Num(-2), FLog(u1))), CosTurn(u2))

\* baseValue + spread, not floored; when the sum of two finite numbers of
\* opposite signs is not computed, low tells whether it is 0 at most
SampleUnfloored(base, spread, low) ==
  IF Signed(base) /\ Signed(spread) /\ FAdd(base, spread) = Unk
    THEN (IF low THEN UnkOf(-1) ELSE UnkOf(1))
    ELSE FAdd(base, spread)

\* Math.max(0, baseValue + spread)
SampleFrom(base, spread, low) ==
  IF Signed(base) /\ Signed(spread) /\ FAdd(base, spread) = Unk
    THEN (IF low THEN Num(0) ELSE UnkOf(1))
    ELSE FMax(Num(0), FAdd(base, spread))

Sample(base, spread, draw) ==
  SampleFrom(base, FMul(BoxMuller(draw.u1, draw.u2), spread), draw.low)

\* the two values Math.random returns in a pass of the loop: u1 = 0 with
\* either sign of the cosine, and u1 = 1/2 with a positive cosine and
\* with cosine -1, the sum then above 0 or not
RandomDraws ==
  {[u1 |-> Num(0), u2 |-> Num(0), low |-> FALSE],
   [u1 |-> Num(0), u2 |-> Frac(1, 2), low |-> FALSE],
   [u1 |-> Frac(1, 2), u2 |-> Frac(1, 4), low |-> FALSE],
   [u1 |-> Frac(1, 2), u2 |-> Frac(1, 2), low |-> FALSE],
   [u1 |-> Frac(1, 2), u2 |-> Frac(1, 2), low |-> TRUE]}

\* the draws of the passes of a call: two draws, taken in turn
DrawPeriod == 2

Patterns == [1 .. DrawPeriod -> RandomDraws]

\* the loop pushing one sample a pass
DataOf(base, spread, samples, pattern) ==
  [i \in 1 .. samples |->
     Sample(base, spread, pattern[((i - 1) % DrawPeriod) + 1])]

\* the samples argument left out
NoCount == [given |-> FALSE, count |-> 0]

SampleCounts == {NoCount} \cup [given : {TRUE}, count : 0 .. MaxLen]

generateSampleData(strategy, metric, sc, samples, pattern) ==
  DataOf(baseValue(strategy, metric, sc),
         FMul(baseValue(strategy, metric, sc), varianceMultiplier[strategy]),
         IF samples.given THEN samples.count ELSE DefaultSamples, pattern)

generateDistributionData(strategy, metric, sc, pattern) ==
  DataOf(baseValue(strategy, metric, sc),
         FMul(baseValue(strategy, metric, sc), varianceMultiplier[strategy]),
         DistributionSamples, pattern)

\* the metrics of the table and one that is not in it
SampleMetrics == Metrics \cup {"averageDelay"}

\* no scenario, and the scenarios of equal flows with the incident and
\* the peak hour, when active, at their highest
SampleScenarios ==
  {NoScenario} \cup
  {sc \in Scenarios :
     /\ sc.northFlow = sc.eastFlow /\ sc.eastFlow = sc.southFlow
     /\ sc.southFlow = sc.westFlow
     /\ sc.incidentSeverity = 100 /\ sc.peakHourIntensity = 100}

SampleInit ==
  /\ NetworkIdle
  /\ PageIdle
  /\ RunIdle
  /\ CustomizerIdle
  /\ \E strategy \in StrategyTypes, metric \in SampleMetrics,
        sc \in SampleScenarios, samples \in SampleCounts :
       args = [strategy |-> strategy, metric |-> metric, scenario |-> sc,
               samples |-> samples, passed |-> <<>>]
  /\ fn = "none"
  /\ result = <<>>

DrawSampleData ==
  /\ fn = "none"
  /\ \E pattern \in Patterns :
       Call("generateSampleData",
            <<args.strategy, args.metric, args.scenario, args.samples>>,
            generateSampleData(args.strategy, args.metric, args.scenario,
                               args.samples, pattern))

DrawDistributionData ==
  /\ fn = "none"
  /\ ~args.samples.given
  /\ \E pattern \in Patterns :
       Call("generateDistributionData",
            <<args.strategy, args.metric, args.scenario>>,
            generateDistributionData(args.strategy, args.metric,
                                     args.scenario, pattern))

SampleNext ==
  \/ DrawSampleData
  \/ DrawDistributionData

SampleSpec == SampleInit /\ [][SampleNext]_vars

\* ------------------------------------------------------ ScenarioCustomizer
MaxEvents == 3

\* the sliders run from min 0 to max 100; their two ends are taken
SliderValues == {0, 100}

Locations == {"N", "E", "S", "W"}

SliderFields == {"northFlow", "eastFlow", "southFlow", "westFlow",
                 "incidentSeverity", "peakHourIntensity",
                 "congestionThreshold"}

ToggleFields == {"incidentActive", "peakHourActive"}

defaultScenario ==
  [name |-> "Custom Scenario",
   northFlow |-> 50, eastFlow |-> 50, southFlow |-> 50, westFlow |-> 50,
   incidentActive |-> FALSE, incidentSeverity |-> 50,
   incidentLocation |-> "N",
   peakHourActive |-> FALSE, peakHourIntensity |-> 50,
   congestionThreshold |-> 70]

presetScenarios ==
  [normal |->
     [name |-> "Normal Traffic",
      northFlow |-> 40, eastFlow |-> 45, southFlow |-> 38, westFlow |-> 42,
      incidentActive |-> FALSE, incidentSeverity |-> 0,
      incidentLocation |-> "N",
      peakHourActive |-> FALSE, peakHourIntensity |-> 0,
      congestionThreshold |-> 70],
   rushHour |->
     [name |-> "Rush Hour",
      northFlow |-> 85, eastFlow |-> 90, southFlow |-> 80, westFlow |-> 88,
      incidentActive |-> FALSE, incidentSeverity |-> 0,
      incidentLocation |-> "N",
      peakHourActive |-> TRUE, peakHourIntensity |-> 80,
      congestionThreshold |-> 70],
   incident |->
     [name |-> "Incident on North",
      northFlow |-> 30, eastFlow |-> 60, southFlow |-> 50, westFlow |-> 65,
      incidentActive |-> TRUE, incidentSeverity |-> 75,
      incidentLocation |-> "N",
      peakHourActive |-> FALSE, peakHourIntensity |-> 0,
      congestionThreshold |-> 70],
   heavyIncident |->
     [name |-> "Heavy Traffic + Incident",
      northFlow |-> 25, eastFlow |-> 85, southFlow |-> 80, westFlow |-> 90,
      incidentActive |-> TRUE, incidentSeverity |-> 90,
      incidentLocation |-> "E",
      peakHourActive |-> TRUE, peakHourIntensity |-> 90,
      congestionThreshold |-> 70]]

CustomizerInit ==
  /\ NetworkIdle
  /\ PageIdle
  /\ RunIdle
  /\ CallIdle
  /\ scenario = defaultScenario
  /\ savedScenarios = <<>>
  /\ notified = <<>>
  /\ now = 0
  /\ events = 0

\* setScenario(s); onScenarioChange(s)
SetAndNotify(s) ==
  /\ scenario' = s
  /\ notified' = <<s>>

\* setScenario(s) alone
SetOnly(s) ==
  /\ scenario' = s
  /\ notified' = notified

\* newScenario = { ...scenario, ...updates } for a one-field update
handleScenarioChange(field, value) ==
  /\ events < MaxEvents
  /\ SetAndNotify([scenario EXCEPT ![field] = value])
  /\ events' = events + 1
  /\ UNCHANGED <<savedScenarios, now, netVars, runVars, callVars, pageVars>>

SliderEdit ==
  \E field \in SliderFields, value \in SliderValues :
    handleScenarioChange(field, value)

ToggleChange ==
  \E field \in ToggleFields, checked \in BOOLEAN :
    handleScenarioChange(field, checked)

LocationChange ==
  \E dir \in Locations : handleScenarioChange("incidentLocation", dir)

handlePresetSelect ==
  /\ events < MaxEvents
  /\ \E presetKey \in DOMAIN presetScenarios :
       SetAndNotify(presetScenarios[presetKey])
  /\ events' = events + 1
  /\ UNCHANGED <<savedScenarios, now, netVars, runVars, callVars, pageVars>>

\* saveName = `Custom_${Date.now()}`: the clock may not have advanced
handleSaveScenario ==
  /\ events < MaxEvents
  /\ \E t \in {now, now + 1} :
       /\ now' = t
       /\ savedScenarios' =
            [k \in DOMAIN savedScenarios \cup {t} |->
               IF k = t THEN scenario ELSE savedScenarios[k]]
  /\ events' = events + 1
  /\ UNCHANGED <<scenario, notified, netVars, runVars, callVars, pageVars>>

handleLoadScenario ==
  /\ events < MaxEvents
  /\ \E scenarioKey \in DOMAIN savedScenarios :
       SetAndNotify(savedScenarios[scenarioKey])
  /\ events' = events + 1
  /\ UNCHANGED <<savedScenarios, now, netVars, runVars, callVars, pageVars>>

\* a reset that does not tell the parent
handleResetSilent ==
  /\ events < MaxEvents
  /\ SetOnly(defaultScenario)
  /\ events' = events + 1
  /\ UNCHANGED <<savedScenarios, now, netVars, runVars, callVars, pageVars>>

handleReset ==
  /\ events < MaxEvents
  /\ SetAndNotify(defaultScenario)
  /\ events' = events + 1
  /\ UNCHANGED <<savedScenarios, now, netVars, runVars, callVars, pageVars>>

CustomizerNext ==
  \/ SliderEdit
  \/ ToggleChange
  \/ LocationChange
  \/ handlePresetSelect
  \/ handleSaveScenario
  \/ handleLoadScenario
  \/ handleReset

CustomizerSpec == CustomizerInit /\ [][CustomizerNext]_vars

\* ------------------------------------------------ NetworkSimulationViewer
\* config.simulationTime of the viewer
ViewerSimulationTime == 100

\* the states of the history are kept by their time; simulateNetworkStep
\* returns a state one tick later
FirstState == 0

NextState(lastState) == lastState + 1

ViewerInit ==
  /\ NetworkIdle
  /\ RunIdle
  /\ CallIdle
  /\ CustomizerIdle
  /\ isRunning = FALSE
  /\ simulationHistory = <<>>
  /\ currentStep = 0
  /\ simulationState = <<>>
  /\ trend = <<>>
  /\ inputs = 0

ViewerRest ==
  UNCHANGED <<simulationState, trend, netVars, runVars, callVars,
              customizerVars>>

\* the first effect, when the component mounts
InitializeSimulation ==
  /\ simulationHistory = <<>>
  /\ simulationHistory' = <<FirstState>>
  /\ currentStep' = 0
  /\ UNCHANGED <<isRunning, inputs>>
  /\ ViewerRest

\* the first effect again, after the grid size, the strategy or the
\* intensity was changed; the three inputs are disabled while running
ChangeSetting ==
  /\ simulationHistory # <<>>
  /\ ~isRunning
  /\ inputs < MaxEvents
  /\ inputs' = inputs + 1
  /\ simulationHistory' = <<FirstState>>
  /\ currentStep' = 0
  /\ UNCHANGED isRunning
  /\ ViewerRest

\* currentStep <= config.simulationTime
MayAdvanceInclusive(step) == step <= ViewerSimulationTime

\* currentStep < config.simulationTime
MayAdvance(step) == step < ViewerSimulationTime

\* the timer of the second effect fires; it is set on every render while
\* isRunning with a history, and cleared when the next render comes
TimerFires ==
  /\ isRunning
  /\ Len(simulationHistory) # 0
  /\ IF MayAdvance(currentStep)
       THEN /\ simulationHistory' =
                 Append(simulationHistory,
                        NextState(simulationHistory[Len(simulationHistory)]))
            /\ currentStep' = currentStep + 1
            /\ UNCHANGED isRunning
       ELSE /\ isRunning' = FALSE
            /\ UNCHANGED <<simulationHistory, currentStep>>
  /\ UNCHANGED inputs
  /\ ViewerRest

\* the Start / Pause button
StartPause ==
  /\ simulationHistory # <<>>
  /\ inputs < MaxEvents
  /\ inputs' = inputs + 1
  /\ isRunning' = ~isRunning
  /\ UNCHANGED <<simulationHistory, currentStep>>
  /\ ViewerRest

\* the Reset button
ResetViewer ==
  /\ simulationHistory # <<>>
  /\ inputs < MaxEvents
  /\ inputs' = inputs + 1
  /\ isRunning' = FALSE
  /\ currentStep' = 0
  /\ simulationHistory' = <<FirstState>>
  /\ ViewerRest

ViewerNext ==
  \/ InitializeSimulation
  \/ ChangeSetting
  \/ TimerFires
  \/ StartPause
  \/ ResetViewer

\* the timer, once set, fires after 100 ms unless it is cleared
ViewerSpec ==
  ViewerInit /\ [][ViewerNext]_vars /\ WF_vars(TimerFires)

\* ------------------------------------------- TrafficSimulator and Home
\* the clock of the simulator is followed up to MaxClock, and the user
\* up to MaxPresses inputs
MaxClock == 105

MaxPresses == 3

\* prev.slice(-19)
KeptEntries == 19

\* simulationTime % 5 === 0
TrendPeriod == 5

\* the preset tried; the traffic of the state is kept by the preset
\* that set it, the results of calculateResults with it
PresetNames == {"rush"}

DefaultState ==
  [traffic |-> "normal", simulationTime |-> 0, isRunning |-> FALSE]

\* seq.slice(-n)
LastEntries(seq, n) ==
  IF Len(seq) <= n THEN seq ELSE SubSeq(seq, Len(seq) - n + 1, Len(seq))

\* the updater without the slice
TrendAfterUncut(prev, entry) == Append(prev, entry)

\* the updater of setSimulationHistory
TrendAfter(prev, entry) == Append(LastEntries(prev, KeptEntries), entry)

\* Home's handleSimulationChange: the trend after a notification
handleSimulationChange(prev, state) ==
  IF state.simulationTime % TrendPeriod = 0 /\ state.simulationTime > 0
    THEN TrendAfter(prev, [time |-> state.simulationTime,
                           results |-> state.traffic])
    ELSE prev

\* the second effect of the simulator: the parent is told when the
\* traffic, the rush hour, the incident or the simulation time changed
Notified(prev, old, new) ==
  IF old.traffic # new.traffic \/ old.simulationTime # new.simulationTime
    THEN handleSimulationChange(prev, new)
    ELSE prev

DashboardInit ==
  /\ NetworkIdle
  /\ RunIdle
  /\ CallIdle
  /\ CustomizerIdle
  /\ isRunning = FALSE
  /\ simulationHistory = <<>>
  /\ currentStep = 0
  /\ simulationState = DefaultState
  /\ trend = <<>>
  /\ inputs = 0

DashboardRest ==
  UNCHANGED <<isRunning, simulationHistory, currentStep, netVars, runVars,
              callVars, customizerVars>>

SetSimulationState(new) ==
  /\ simulationState' = new
  /\ trend' = Notified(trend, simulationState, new)
  /\ DashboardRest

\* the interval of the first effect fires
IntervalFires ==
  /\ simulationState.isRunning
  /\ simulationState.simulationTime < MaxClock
  /\ SetSimulationState([simulationState EXCEPT !.simulationTime = @ + 1])
  /\ UNCHANGED inputs

handlePlayPause ==
  /\ inputs < MaxPresses
  /\ inputs' = inputs + 1
  /\ SetSimulationState([simulationState EXCEPT !.isRunning = ~@])

ResetSimulator ==
  /\ inputs < MaxPresses
  /\ inputs' = inputs + 1
  /\ SetSimulationState(DefaultState)

handlePreset ==
  /\ inputs < MaxPresses
  /\ inputs' = inputs + 1
  /\ \E preset \in PresetNames :
       SetSimulationState([simulationState EXCEPT !.traffic = preset])

DashboardNext ==
  \/ IntervalFires
  \/ handlePlayPause
  \/ ResetSimulator
  \/ handlePreset

DashboardSpec == DashboardInit /\ [][DashboardNext]_vars

Percent == 0 .. 100

\* ------------------------------------------------------------- properties
NSAxisGreen(i) ==
  /\ i.northSignal = "green" /\ i.southSignal = "green"
  /\ i.eastSignal = "red" /\ i.westSignal = "red"

EWAxisGreen(i) ==
  /\ i.northSignal = "red" /\ i.southSignal = "red"
  /\ i.eastSignal = "green" /\ i.westSignal = "green"

ThroughTotal(t) == t.north + t.east + t.south + t.west

\* C1: every directional queue of every intersection is >= 0 in every state
\* of a run, for every grid size, intensity and strategy, and so is
\* totalVehicles.
C1_QueuesNonNegative ==
  /\ \A n \in DOMAIN intersections :
       /\ intersections[n].northQueue >= 0
       /\ intersections[n].eastQueue >= 0
       /\ intersections[n].southQueue >= 0
       /\ intersections[n].westQueue >= 0
  /\ totalVehicles >= 0

\* a tick in which vehicles departed at full capacity and vehicles remain
C1_Witness ==
  /\ time >= 2
  /\ totalVehicles > 0
  /\ \E n \in DOMAIN intersections :
       through[n].east = GreenCapacity * Scale
       \/ through[n].north = GreenCapacity * Scale

\* C2: in every reachable state each intersection has north = south,
\* east = west, and exactly one axis green while the other is red.
C2_SignalsComplementary ==
  \A n \in DOMAIN intersections :
    NSAxisGreen(intersections[n]) \/ EWAxisGreen(intersections[n])

\* a strategy has switched some intersection away from its initial phase
C2_Witness ==
  /\ time >= 1
  /\ \E n \in DOMAIN intersections : NSAxisGreen(intersections[n])
  /\ \E n \in DOMAIN intersections : EWAxisGreen(intersections[n])

\* C3: under "fixed-time" the green axis after tick t is a function of the
\* tick count alone: north-south when floor(t/30) mod 2 = 0, east-west
\* otherwise.
C3_FixedTimeByTick ==
  (config.strategy = "fixed-time" /\ time >= 1) =>
    \A n \in DOMAIN intersections :
      IF (time \div CycleLength) % 2 = 0
      THEN NSAxisGreen(intersections[n])
      ELSE EWAxisGreen(intersections[n])

\* the departures min(queue, capacity) of one direction under a given signal
DepartsUnder(queue, signal) ==
  IF signal = "green" THEN Min(queue, GreenCapacity * Scale) ELSE 0

\* the axis a strategy selects for an intersection with the given queues
\* and waiting time: TRUE for north-south
SelectsNS(strategy, i) ==
  CASE strategy = "fixed-time" ->
         (i.totalWaitingTime \div (CycleLength * Scale)) % 2 = 0
    [] strategy = "rule-based" ->
         i.northQueue + i.southQueue > i.eastQueue + i.westQueue
    [] strategy = "rl-based" ->
         2 * (i.northQueue + i.southQueue)
           > i.northQueue + i.eastQueue + i.southQueue + i.westQueue + Scale

\* C4 (as claimed): the strategy selects the green axis before the
\* departures, so the departures of a tick are those of the phase selected
\* in that same tick.
C4_DeparturesUseNewPhase ==
  [][\A n \in DOMAIN intersections :
       /\ through'[n].north = DepartsUnder(intersections[n].northQueue,
                                           stepped'[n].northSignal)
       /\ through'[n].east = DepartsUnder(intersections[n].eastQueue,
                                          stepped'[n].eastSignal)
       /\ through'[n].south = DepartsUnder(intersections[n].southQueue,
                                           stepped'[n].southSignal)
       /\ through'[n].west = DepartsUnder(intersections[n].westQueue,
                                          stepped'[n].westSignal)]_vars

\* C4 (amended): within a tick the arrivals are added to the flow rates,
\* then vehicles depart under the phase the intersection had when the tick
\* began, then the flow is added to the queues, and only then the strategy
\* selects the green axis from the resulting queues and waiting time.
C4_StrategySelectsLast ==
  [][\A n \in DOMAIN intersections :
       LET old == intersections[n]
           new == stepped'[n]
           t == through'[n]
       IN  /\ new.northFlow >= old.northFlow /\ new.eastFlow >= old.eastFlow
           /\ new.southFlow >= old.southFlow /\ new.westFlow >= old.westFlow
           /\ t.north = DepartsUnder(old.northQueue, old.northSignal)
           /\ t.east = DepartsUnder(old.eastQueue, old.eastSignal)
           /\ t.south = DepartsUnder(old.southQueue, old.southSignal)
           /\ t.west = DepartsUnder(old.westQueue, old.westSignal)
           /\ new.northQueue = old.northQueue - t.north + new.northFlow
           /\ new.eastQueue = old.eastQueue - t.east + new.eastFlow
           /\ new.southQueue = old.southQueue - t.south + new.southFlow
           /\ new.westQueue = old.westQueue - t.west + new.westFlow
           /\ new.totalWaitingTime =
                old.totalWaitingTime + new.northQueue + new.eastQueue
                + new.southQueue + new.westQueue
           /\ IF SelectsNS(config.strategy, new)
              THEN NSAxisGreen(new) ELSE EWAxisGreen(new)]_vars

\* vehicles departed east in the last tick although the phase selected in
\* that tick is north-south
C4_Witness ==
  /\ time >= 2
  /\ \E n \in DOMAIN intersections :
       /\ through[n].east > 0
       /\ NSAxisGreen(stepped[n])

AllFlows(ints) ==
  Sum([n \in DOMAIN ints |-> ints[n].northFlow + ints[n].eastFlow
                             + ints[n].southFlow + ints[n].westFlow])

\* C5: a tick conserves vehicles: the queued total after the tick is the
\* total before, plus the flow added to the queues, minus the departures;
\* the propagation pass creates and destroys nothing.
C5_FlowConserved ==
  [][TotalVehicles(intersections') =
       TotalVehicles(intersections) + AllFlows(intersections')
       - Sum([n \in DOMAIN through' |-> ThroughTotal(through'[n])])]_vars

\* C6: in a tick each direction releases min(queue, 8) vehicles when its
\* signal is green and none otherwise; totalThroughput grows by exactly the
\* sum of the four, so it never decreases and grows by at most 16.
C6_DeparturesAndThroughput ==
  [][\A n \in DOMAIN intersections :
       LET old == intersections[n]
           new == intersections'[n]
           t == through'[n]
       IN  /\ t.north = (IF old.northSignal = "green"
                         THEN Min(old.northQueue, GreenCapacity * Scale)
                         ELSE 0)
           /\ t.east = (IF old.eastSignal = "green"
                        THEN Min(old.eastQueue, GreenCapacity * Scale)
                        ELSE 0)
           /\ t.south = (IF old.southSignal = "green"
                         THEN Min(old.southQueue, GreenCapacity * Scale)
                         ELSE 0)
           /\ t.west = (IF old.westSignal = "green"
                        THEN Min(old.westQueue, GreenCapacity * Scale)
                        ELSE 0)
           /\ new.totalThroughput = old.totalThroughput + ThroughTotal(t)
           /\ new.totalThroughput >= old.totalThroughput
           /\ new.totalThroughput - old.totalThroughput
                <= 2 * GreenCapacity * Scale]_vars

\* an intersection released the full 16 vehicles in the last tick and
\* another released some but fewer than the capacity of one direction
C6_Witness ==
  /\ \E n \in DOMAIN intersections :
       ThroughTotal(through[n]) = 2 * GreenCapacity * Scale
  /\ \E n \in DOMAIN intersections :
       /\ ThroughTotal(through[n]) > 0
       /\ ThroughTotal(through[n]) < GreenCapacity * Scale

QueueIn(i, direction) ==
  CASE direction = "north" -> i.northQueue
    [] direction = "east" -> i.eastQueue
    [] direction = "south" -> i.southQueue
    [] direction = "west" -> i.westQueue

SignalIn(i, direction) ==
  CASE direction = "north" -> i.northSignal
    [] direction = "east" -> i.eastSignal
    [] direction = "south" -> i.southSignal
    [] direction = "west" -> i.westSignal

Opposite(direction) ==
  CASE direction = "north" -> "south"
    [] direction = "east" -> "west"
    [] direction = "south" -> "north"
    [] direction = "west" -> "east"

\* position of the intersection with the given id
At(id) == CHOOSE n \in DOMAIN intersections : intersections[n].id = id

\* what the connections numbered in ks added to the queue of the
\* intersection id that faces the given direction
Inflow(id, direction, ks) ==
  Sum([j \in 1 .. Len(connections) |->
         IF /\ j \in ks
            /\ connections[j].to = id
            /\ Opposite(connections[j].direction) = direction
         THEN flowAmounts[j] ELSE 0])

\* C7 (as claimed): a connection whose source direction is green adds 0.3
\* times the traffic that departed from the source's queue in this tick,
\* capped at 5; the other connections add nothing.
C7_FlowFromDeparted ==
  time >= 1 =>
    \A k \in 1 .. Len(connections) :
      LET c == connections[k]
          from == At(c.from)
      IN  flowAmounts[k] =
            IF SignalIn(intersections[from], c.direction) = "green"
            THEN Min((QueueIn([northQueue |-> through[from].north,
                               eastQueue |-> through[from].east,
                               southQueue |-> through[from].south,
                               westQueue |-> through[from].west],
                              c.direction) * FlowInfluenceTenths) \div 10,
                     FlowCap * Scale)
            ELSE 0

\* C7 (amended): a connection whose source direction is green (under the
\* phase selected in this tick) adds 0.3 times the source's queue in that
\* direction as it stands when the connection is processed, capped at 5:
\* the queue after this tick's departures and arrivals plus what the
\* connections processed earlier in the pass added to it.  The other
\* connections add nothing, and every queue ends as its first-pass value
\* plus what the connections into it added.
C7_FlowFromStandingQueue ==
  time >= 1 =>
    /\ \A k \in 1 .. Len(connections) :
         LET c == connections[k]
             from == At(c.from)
             standing == QueueIn(stepped[from], c.direction)
                         + Inflow(c.from, c.direction, 1 .. (k - 1))
         IN  flowAmounts[k] =
               IF SignalIn(stepped[from], c.direction) = "green"
               THEN Min((standing * FlowInfluenceTenths) \div 10,
                        FlowCap * Scale)
               ELSE 0
    /\ \A n \in DOMAIN intersections :
         \A d \in Directions :
           QueueIn(intersections[n], d) =
             QueueIn(stepped[n], d)
             + Inflow(intersections[n].id, d, 1 .. Len(connections))

\* the last pass had a capped connection, an uncapped positive one, a red
\* one, and a connection whose source queue had already been raised by an
\* earlier connection of the same pass
C7_Witness ==
  /\ \E k \in 1 .. Len(connections) : flowAmounts[k] = FlowCap * Scale
  /\ \E k \in 1 .. Len(connections) :
       flowAmounts[k] > 0 /\ flowAmounts[k] < FlowCap * Scale
  /\ \E k \in 1 .. Len(connections) :
       /\ SignalIn(stepped[At(connections[k].from)],
                   connections[k].direction) = "red"
       /\ QueueIn(stepped[At(connections[k].from)],
                  connections[k].direction) > 0
  /\ \E k \in 1 .. Len(connections) :
       /\ flowAmounts[k] > 0
       /\ flowAmounts[k] < FlowCap * Scale
       /\ Inflow(connections[k].from, connections[k].direction,
                 1 .. (k - 1)) > 0

NSQueue(i) == i.northQueue + i.southQueue
EWQueue(i) == i.eastQueue + i.westQueue

\* C8 (as claimed): under "rl-based" north-south is green after a tick
\* exactly when north+south is more than 50% of the total queue.
C8_RLMajority ==
  (config.strategy = "rl-based" /\ time >= 1) =>
    \A n \in DOMAIN intersections :
      NSAxisGreen(intersections[n])
        <=> 2 * NSQueue(stepped[n]) > QueueTotal(stepped[n])

\* C8 (amended): under "rl-based" north-south is green after a tick exactly
\* when (north+south) / (total queue + 1) > 0.5, the queues taken after the
\* tick's departures and arrivals and before the propagation pass; that is,
\* when north+south exceeds east+west by more than one vehicle.  East-west
\* is green otherwise.
C8_RLGuardedRatio ==
  (config.strategy = "rl-based" /\ time >= 1) =>
    \A n \in DOMAIN intersections :
      /\ NSAxisGreen(intersections[n])
           <=> 2 * NSQueue(stepped[n]) > QueueTotal(stepped[n]) + Scale
      /\ NSAxisGreen(intersections[n])
           <=> NSQueue(stepped[n]) > EWQueue(stepped[n]) + Scale
      /\ ~ NSAxisGreen(intersections[n]) => EWAxisGreen(intersections[n])

\* north-south holds a majority of at most one vehicle and east-west is
\* green, while another intersection is north-south green
C8_Witness ==
  /\ config.strategy = "rl-based"
  /\ time >= 1
  /\ \E n \in DOMAIN intersections :
       /\ NSQueue(stepped[n]) > EWQueue(stepped[n])
       /\ NSQueue(stepped[n]) <= EWQueue(stepped[n]) + Scale
       /\ EWAxisGreen(intersections[n])
  /\ \E n \in DOMAIN intersections : NSAxisGreen(intersections[n])

\* C9: under "rule-based" north-south is green after a tick exactly when
\* north+south > east+west, the queues taken after the tick's departures and
\* arrivals; east-west is green otherwise, a tie included.
C9_RuleLongerQueue ==
  (config.strategy = "rule-based" /\ time >= 1) =>
    \A n \in DOMAIN intersections :
      IF NSQueue(stepped[n]) > EWQueue(stepped[n])
      THEN NSAxisGreen(intersections[n])
      ELSE EWAxisGreen(intersections[n])

\* a non-empty tie went to east-west while another intersection is
\* north-south green
C9_Witness ==
  /\ config.strategy = "rule-based"
  /\ time >= 1
  /\ \E n \in DOMAIN intersections :
       /\ NSQueue(stepped[n]) = EWQueue(stepped[n])
       /\ NSQueue(stepped[n]) > 0
       /\ EWAxisGreen(intersections[n])
  /\ \E n \in DOMAIN intersections : NSAxisGreen(intersections[n])

C11_MetricsRecomputed ==
  time >= 1 =>
    LET n == Len(intersections)
        vehicles == Sum([k \in 1 .. n |->
                           QueueIn(intersections[k], "north")
                           + QueueIn(intersections[k], "east")
                           + QueueIn(intersections[k], "south")
                           + QueueIn(intersections[k], "west")])
        waiting == Sum([k \in 1 .. n |-> intersections[k].totalWaitingTime])
        throughput == Sum([k \in 1 .. n |-> intersections[k].totalThroughput])
    IN  /\ totalVehicles = vehicles
        /\ averageWaitingTime = [num |-> waiting, den |-> n]
        /\ networkEfficiency =
             IF vehicles > 0 THEN [num |-> throughput, den |-> vehicles]
             ELSE [num |-> 0, den |-> 1]

\* the propagation pass changed some queue, vehicles have departed, and
\* the metrics are non-zero
C11_Witness ==
  /\ time >= 2
  /\ intersections # stepped
  /\ totalVehicles > 0
  /\ networkEfficiency.num > 0
  /\ averageWaitingTime.num > 0

\* C13: createNetworkConnections(g) returns 2*g*(g-1)*2 directed
\* connections, each between grid-adjacent intersections with flowInfluence
\* 0.3, and the reverse of every connection is present with the opposite
\* direction label.
C13_ConnectionsOfGrid ==
  LET g == config.gridSize
  IN  /\ Len(connections) = 2 * g * (g - 1) * 2
      /\ \A k \in 1 .. Len(connections) :
           LET c == connections[k]
               dx == c.to[1] - c.from[1]
               dy == c.to[2] - c.from[2]
           IN  /\ c.flowInfluence = FlowInfluenceTenths
               /\ c.from[1] \in 0 .. g - 1 /\ c.from[2] \in 0 .. g - 1
               /\ c.to[1] \in 0 .. g - 1 /\ c.to[2] \in 0 .. g - 1
               /\ <<dx, dy>> = (CASE c.direction = "north" -> <<0, -1>>
                                  [] c.direction = "east" -> <<1, 0>>
                                  [] c.direction = "south" -> <<0, 1>>
                                  [] c.direction = "west" -> <<-1, 0>>)
               /\ \E j \in 1 .. Len(connections) :
                    /\ connections[j].from = c.to
                    /\ connections[j].to = c.from
                    /\ connections[j].direction = Opposite(c.direction)
               /\ \A j \in 1 .. Len(connections) :
                    (connections[j].from = c.from /\ connections[j].to = c.to)
                      => j = k

\* the 48 connections of the 4x4 grid, an inner cell's west connection
\* among them
C13_Witness ==
  /\ config.gridSize = 4
  /\ Len(connections) = 48
  /\ \E k \in 1 .. Len(connections) :
       connections[k].from = <<1, 1>> /\ connections[k].direction = "west"

\* C12: the run makes exactly simulationTime ticks and returns
\* simulationTime + 1 states, the k-th of them (from 0) at time k.
C12_RunLength ==
  /\ \A k \in 1 .. Len(history) : heap[history[k]].time = k - 1
  /\ Len(history) = loopIndex + 1
  /\ loopIndex <= config.simulationTime
  /\ pc = "done" => /\ loopIndex = config.simulationTime
                    /\ Len(history) = config.simulationTime + 1

\* a run of two ticks or more has returned
C12_Witness ==
  /\ pc = "done"
  /\ config.simulationTime >= 2
  /\ Len(history) = config.simulationTime + 1
  /\ heap[history[Len(history)]].time = config.simulationTime

\* C14: a tick leaves the states already in the history, their
\* intersections included, and the connection list as they were.
C14_InputsUntouched ==
  [][/\ \A k \in 1 .. Len(history) :
          StateAt(heap', history[k]) = StateAt(heap, history[k])
     /\ connections' = connections]_vars

\* two ticks are done and the vehicles of the first three states differ
C14_Witness ==
  /\ Len(history) >= 3
  /\ StateAt(heap, history[1]).intersections
       # StateAt(heap, history[2]).intersections
  /\ StateAt(heap, history[2]).intersections
       # StateAt(heap, history[3]).intersections
  /\ StateAt(heap, history[3]).totalVehicles > 0

C16_ScenarioInRangeAndNotified ==
  /\ \A field \in SliderFields : scenario[field] \in Percent
  /\ \A k \in DOMAIN savedScenarios :
       \A field \in SliderFields : savedScenarios[k][field] \in Percent
  /\ notified # <<>> => notified[1] = scenario

\* an edited scenario was saved, a preset or the default taken, and the
\* saved one loaded again
C16_Witness ==
  /\ events = MaxEvents
  /\ notified = <<scenario>>
  /\ scenario.northFlow = 100
  /\ \E k \in DOMAIN savedScenarios : savedScenarios[k] = scenario

\* C17: the t-test of a sample against itself, the sample having two
\* different values at least, gives testStatistic 0, pValue 1 and
\* isSignificant false.
C17_SameSampleTTest ==
  (/\ fn = "independentTTest"
   /\ args.passed[1] = args.passed[2]
   /\ Varies(args.passed[1]))
  => /\ result.testStatistic = Num(0)
     /\ result.pValue = Num(1)
     /\ result.isSignificant = "false"

\* C18: the bounds of a confidence interval enclose the mean, for every
\* vector, the empty one included, and every level.
C18_BoundsEncloseMean ==
  fn = "calculateConfidenceInterval"
  => /\ FLeq(result.lowerBound, result.mean) = "true"
     /\ FLeq(result.mean, result.upperBound) = "true"

\* C19: calculateBasicStats of the empty vector returns eleven fields,
\* all of them 0.
C19_EmptyStatsAllZero ==
  (fn = "calculateBasicStats" /\ args.passed[1] = <<>>)
  => /\ DOMAIN result = StatFields
     /\ \A field \in StatFields : result[field] = Num(0)

\* the empty vector was passed, and so was a vector whose statistics are
\* not all zero
C19_Witness ==
  /\ fn = "calculateBasicStats"
  /\ args.passed[1] = <<>>
  /\ result.mean = Num(0)
  /\ calculateBasicStats(args.other).mean # Num(0)

\* C20: the analysis of variance of three times the same non-empty group
\* gives F = 0, in anovaTest and in performANOVA.
C20_IdenticalGroupsF0 ==
  /\ (/\ fn = "anovaTest"
      /\ args.passed[1] = <<args.data, args.data, args.data>>)
     => result.testStatistic = Num(0)
  /\ (/\ fn = "performANOVA"
      /\ args.passed = <<args.data, args.data, args.data>>)
     => result.f_statistic = Num(0)

\* C21: pearsonCorrelation(x, x) is 1 for every vector x with two different
\* values, and the correlation of two vectors of any lengths is the
\* correlation of their first min(length) values.
C21_SelfCorrelationAndPrefix ==
  fn = "pearsonCorrelation" =>
    /\ (args.passed[1] = args.passed[2] /\ Varies(args.passed[1])
          => result = Num(1))
    /\ result = pearsonCorrelation(
                  Take(args.passed[1],
                       Min(Len(args.passed[1]), Len(args.passed[2]))),
                  Take(args.passed[2],
                       Min(Len(args.passed[1]), Len(args.passed[2]))))

\* a longer first vector whose extra value changes its mean, correlated
\* with a vector of two different values
C21_Witness ==
  /\ fn = "pearsonCorrelation"
  /\ Len(args.passed[1]) > Len(args.passed[2])
  /\ Varies(args.passed[2])
  /\ WholeMean(args.passed[1], 0) # SliceMean(args.passed[1], 2)
  /\ result.k = "fin"

LibraryTests == {"independentTTest", "anovaTest", "chiSquareTest"}

ComponentTests == {"performTTest", "performANOVA"}

\* a p-value that is a computed rational, or NaN
Known(p) == (p.k = "fin" /\ p.s = 0) \/ p.k = "nan"

\* p < n / d for a known p
Below(p, n, d) == Truth(p.k = "fin" /\ RCmp(p.a, Rat(n, d)) < 0)

\* C22 as stated: every test marks its result significant exactly when
\* the p-value is below 0.05, whatever the confidence level.
C22_ThresholdFixed ==
  /\ fn \in LibraryTests /\ Known(result.pValue)
       => result.isSignificant = Below(result.pValue, 5, 100)
  /\ fn \in ComponentTests /\ Known(result.p_value)
       /\ result.p_value # Frac(5, 100)
       => result.significant = Below(result.p_value, 5, 100)

\* C22 amended: a library test is significant exactly when its p-value is
\* below 1 - confidenceLevel; a component test, which takes no level,
\* exactly when its p-value is below 0.05 (read off the returned p_value,
\* rounded to four places, unless that is 0.05 itself).
C22_ThresholdFromLevel ==
  /\ fn \in LibraryTests /\ Known(result.pValue)
       => result.isSignificant =
            Below(result.pValue, 100 - result.confidenceLevel, 100)
  /\ fn \in ComponentTests /\ Known(result.p_value)
       /\ result.p_value # Frac(5, 100)
       => result.significant = Below(result.p_value, 5, 100)

\* a chi-square test at level 1 whose p-value is 0 and is not significant
C22_Witness ==
  /\ fn = "chiSquareTest"
  /\ result.confidenceLevel = 100
  /\ result.pValue = Num(0)
  /\ result.isSignificant = "false"

\* the z-score the interval was built with: marginOfError = z * se
BuiltWith(z) ==
  result.marginOfError =
    FMul(z, FDiv(calculateBasicStats(args.passed[1]).stdDev,
                 FSqrt(Num(Len(args.passed[1])))))

\* C23: the interval is built with z = 1.645 at level 0.90, 1.96 at 0.95,
\* 2.576 at 0.99 and 1.96 at every other level, and it reports the level
\* that was requested.
C23_ZScoreTableAndFallback ==
  fn = "calculateConfidenceInterval" =>
    /\ result.confidenceLevel = args.passed[2]
    /\ args.passed[2] = 90 => BuiltWith(Frac(1645, 1000))
    /\ args.passed[2] = 95 => BuiltWith(Frac(196, 100))
    /\ args.passed[2] = 99 => BuiltWith(Frac(2576, 1000))
    /\ args.passed[2] \notin {90, 95, 99} => BuiltWith(Frac(196, 100))

\* an interval at level 0.50 over a vector with two different values
C23_Witness ==
  /\ fn = "calculateConfidenceInterval"
  /\ args.passed[2] = 50
  /\ Varies(args.passed[1])
  /\ result.marginOfError.k = "fin"
  /\ result.confidenceLevel = 50

\* C24: for every non-empty array the mean that calculateBasicStats
\* returns lies between the returned min and max.
C24_MeanBetweenMinAndMax ==
  fn = "calculateBasicStats" /\ Len(args.passed[1]) > 0 =>
    /\ DoubleLeq(result.min, result.mean)
    /\ DoubleLeq(result.mean, result.max)

\* C25: for fixed positive a and b, incompleteBeta(x, a, b) does not
\* decrease as x grows over [0, 1], the endpoints 0 and 1 included
C25_BetaMonotone ==
  fn = "incompleteBeta" /\ FLeq(args.x1, args.x2) = "true" =>
    FLeq(result[1], result[2]) # "false"

\* C26: the generators return exactly samples values, 100 when the count
\* is not given, and every value is 0 at least, for every strategy,
\* metric and scenario
C26_SamplesCountedAndFloored ==
  fn \in {"generateSampleData", "generateDistributionData"} =>
    /\ Len(result) = (IF fn = "generateSampleData" /\ args.samples.given
                        THEN args.samples.count ELSE 100)
    /\ \A i \in DOMAIN result : FLeq(Num(0), result[i]) = "true"

\* generateSampleData was called without a count under a scenario and
\* returned a zero, where the sum was below 0, next to an infinite
\* sample
C26_Witness ==
  /\ fn = "generateSampleData"
  /\ ~args.samples.given
  /\ args.scenario.given
  /\ Len(result) = 100
  /\ result[1] = Num(0)
  /\ result[2] = Inf(1)

\* a step of the viewer that is no input of the user, while running
TimerStep ==
  isRunning /\ simulationHistory # <<>> /\ inputs' = inputs

\* C27: in the viewer, while running, a timer firing advances currentStep
\* by 1 and appends one state, or, at currentStep = simulationTime, stops
\* the run; currentStep never exceeds simulationTime (100); the history
\* has currentStep + 1 entries once initialised, whatever the user does
\* in between; and when the user does nothing more, a run ends with
\* isRunning false and currentStep = simulationTime.
C27_ViewerRun ==
  /\ [](currentStep <= ViewerSimulationTime)
  /\ [](simulationHistory # <<>> =>
          Len(simulationHistory) = currentStep + 1)
  /\ [][TimerStep =>
          \/ /\ currentStep < ViewerSimulationTime
             /\ currentStep' = currentStep + 1
             /\ Len(simulationHistory') = Len(simulationHistory) + 1
             /\ SubSeq(simulationHistory', 1, Len(simulationHistory))
                  = simulationHistory
             /\ isRunning'
          \/ /\ currentStep = ViewerSimulationTime
             /\ ~isRunning'
             /\ currentStep' = currentStep
             /\ simulationHistory' = simulationHistory]_vars
  /\ (isRunning /\ inputs = MaxEvents)
       ~> (~isRunning /\ currentStep = ViewerSimulationTime)

\* a run was paused and started again, and has come to its end
C27_Witness ==
  /\ inputs = 3
  /\ ~isRunning
  /\ currentStep = ViewerSimulationTime
  /\ Len(simulationHistory) = ViewerSimulationTime + 1

\* the connections in another order: last to first, or two neighbours of
\* the list exchanged
Reversed(conns) == [k \in DOMAIN conns |-> conns[Len(conns) + 1 - k]]

Exchanged(conns, j) ==
  [k \in DOMAIN conns |->
     IF k = j THEN conns[j + 1] ELSE IF k = j + 1 THEN conns[j] ELSE conns[k]]

Orderings(conns) ==
  {Reversed(conns)} \cup {Exchanged(conns, j) : j \in 1 .. Len(conns) - 1}

Queues(ints) ==
  [n \in DOMAIN ints |->
     <<ints[n].northQueue, ints[n].eastQueue, ints[n].southQueue,
       ints[n].westQueue>>]

\* C28: the propagation pass of a tick gives every intersection the same
\* queues whatever the order the connections are processed in
C28_OrderIndependent ==
  time > 0 =>
    \A conns \in Orderings(connections) :
      Queues(applyNetworkFlowInfluence(stepped, conns)) = Queues(intersections)

\* not outside [0, 1], as far as the model computes p
InUnitRange(p) ==
  FLeq(Num(0), p) # "false" /\ FLeq(p, Num(1)) # "false"

\* a table whose rows and columns all have a positive total
PositiveMarginals(observed) ==
  /\ \A i \in DOMAIN observed : Sum(observed[i]) > 0
  /\ \A j \in DOMAIN observed[1] :
       Sum([i \in DOMAIN observed |-> observed[i][j]]) > 0

\* C29: the p-value of every hypothesis test lies in [0, 1] when the
\* samples have a variance other than 0 and, for chiSquareTest, the table
\* has positive marginals
C29_PValuesInUnitRange ==
  /\ (fn = "independentTTest" /\ Varies(args.passed[1])
        /\ Varies(args.passed[2])) => InUnitRange(result.pValue)
  /\ (fn = "anovaTest"
        /\ \A g \in DOMAIN args.passed[1] : Varies(args.passed[1][g]))
       => InUnitRange(result.pValue)
  /\ (fn = "chiSquareTest" /\ PositiveMarginals(args.passed[1]))
       => InUnitRange(result.pValue)
  /\ (fn = "performTTest" /\ Varies(args.passed[1])
        /\ Varies(args.passed[2])) => InUnitRange(result.p_value)
  /\ (fn = "performANOVA"
        /\ \A g \in DOMAIN args.passed : Varies(args.passed[g]))
       => InUnitRange(result.p_value)

\* C30: the trend history of the dashboard has 20 entries at most; a
\* notification appends an entry only when simulationTime is a positive
\* multiple of 5; when the history is full the oldest entry is dropped
\* and the others keep their order.
C30_TrendKeepsLastTwenty ==
  /\ [](Len(trend) <= 20)
  /\ [][trend' # trend =>
          /\ simulationState'.simulationTime % 5 = 0
          /\ simulationState'.simulationTime > 0
          /\ trend'[Len(trend')].time = simulationState'.simulationTime
          /\ IF Len(trend) < 20
               THEN SubSeq(trend', 1, Len(trend') - 1) = trend
               ELSE SubSeq(trend', 1, Len(trend') - 1) = Tail(trend)]_vars

\* the history is full, its entry of time 5 has been dropped, and the
\* traffic was changed on the way
C30_Witness ==
  /\ Len(trend) = 20
  /\ trend[1].time = 10
  /\ trend[20].time = 105
  /\ trend[1].results # trend[20].results

====
